---- MODULE Spec2Model ----
(***************************************************************************)
(* A model of the games-search pipeline: the RAWG catalog fetcher          *)
(* (services/rawg_service.py), the Game record (models/game.py), the       *)
(* OpenAI review service (services/openai_service.py) and the controller   *)
(* that composes them (controllers/game_controller.py).                    *)
(*                                                                         *)
(* Python values are tagged records: None is [t |-> "none"], an int is     *)
(* [t |-> "int", v |-> n], a str is [t |-> "str", v |-> <<chars>>] and so  *)
(* on.  Text that the code inspects character by character (platform       *)
(* names, filter tokens, review text, response lines) is a sequence of     *)
(* one-character strings; text that is only formatted (dates) is a string. *)
(***************************************************************************)
EXTENDS Integers, Sequences, FiniteSets, TLC

VARIABLES
    pc,                 \* where the running call is: "idle", "fetch", "enrich", "store"
    caller,             \* who called fetch_games: "direct" or "search"
    year, month,        \* arguments of the running call
    platform_filter,    \* argument of the running call (None or a list of tokens)
    include_ai_reviews, \* argument of search_games
    window,             \* (start_date, end_date) of fetch_games
    upstream,           \* the catalog API's behaviour for this call: page -> response
    page,               \* loop variable of fetch_games
    games,              \* the local list `games` (fetch_games, then search_games)
    requests,           \* pages requested by the running/last fetch_games, in order
    idx,                \* next record to enrich in search_games (1-based)
    calls,              \* generate_review calls of the running/last search, in order
    random_range,       \* (min_year, max_year) of the last search_random_games
    client,             \* OpenAIReviewService.client is not None
    last_results,       \* GameController._last_results
    last_search_year,   \* GameController._last_search_year
    last_search_month,  \* GameController._last_search_month
    ret,                \* outcome of the last completed operation
    pure_in,            \* input of the last pure-function application
    pure_out,           \* its output
    ctor,               \* what OpenAIReviewService.__init__ was given and found
    sent,               \* chat requests sent by the running/last generate_review
    openpyxl,           \* strategies.OPENPYXL_AVAILABLE
    files,              \* the file system: path -> what the file holds
    held,               \* the list object the caller got from get_last_results
    completed,          \* history: the most recent search that returned
    environ,            \* os.environ and the .env file
    config              \* the Config class: _instance and its attributes

vars == <<pc, caller, year, month, platform_filter, include_ai_reviews, window,
          upstream, page, games, requests, idx, calls, random_range, client,
          last_results,
          last_search_year, last_search_month, ret, pure_in, pure_out,
          ctor, sent, openpyxl, files, held, completed, environ, config>>

frameVars == <<pc, caller, year, month, platform_filter, include_ai_reviews,
               window, upstream, page, games, requests, idx, calls, random_range>>
ctlVars == <<last_results, last_search_year, last_search_month>>
pureVars == <<pure_in, pure_out>>
svcVars == <<ctor, sent>>
expVars == <<openpyxl, files>>
cfgVars == <<environ, config>>

-----------------------------------------------------------------------------
(* Python values *)

PyNone == [t |-> "none"]
PyInt(n) == [t |-> "int", v |-> n]
PyStr(s) == [t |-> "str", v |-> s]
PyList(s) == [t |-> "list", v |-> s]
IsNone(x) == x.t = "none"

\* no service constructed by the model, no file written, no list handed out
NoCtor == [t |-> "none"]
NoFiles == {}
NoHeld == [t |-> "none"]
NoSearch == [t |-> "none"]
NoInstance == 0     \* `_instance = None`; objects are numbered from 1

NoRet == [kind |-> "none", op |-> "none"]
NoPure == [fn |-> "none"]
Return(op, v) == [kind |-> "return", op |-> op, value |-> v]
Raise(op, e) == [kind |-> "raise", op |-> op, exc |-> e]

-----------------------------------------------------------------------------
(* Characters: str.lower(), str.isdigit(), str.strip(), substring test *)

UpperChars == <<"A", "B", "C", "D", "E", "F", "G", "H", "I", "J", "K", "L", "M",
                "N", "O", "P", "Q", "R", "S", "T", "U", "V", "W", "X", "Y", "Z">>
LowerChars == <<"a", "b", "c", "d", "e", "f", "g", "h", "i", "j", "k", "l", "m",
                "n", "o", "p", "q", "r", "s", "t", "u", "v", "w", "x", "y", "z">>

\* str.lower() and str.upper() of one character
ToLower == [c \in {UpperChars[i] : i \in 1..26} |->
               LowerChars[CHOOSE i \in 1..26 : UpperChars[i] = c]]
ToUpper == [c \in {LowerChars[i] : i \in 1..26} |->
               UpperChars[CHOOSE i \in 1..26 : LowerChars[i] = c]]

CharLower(c) == IF c \in DOMAIN ToLower THEN ToLower[c] ELSE c
CharUpper(c) == IF c \in DOMAIN ToUpper THEN ToUpper[c] ELSE c

\* str.lower()
StrLower(s) == [i \in 1..Len(s) |-> CharLower(s[i])]

\* str.upper()
StrUpper(s) == [i \in 1..Len(s) |-> CharUpper(s[i])]

\* `a in b` for two str
StrContains(b, a) ==
    \E i \in 0..(Len(b) - Len(a)) : SubSeq(b, i + 1, i + Len(a)) = a

\* b.startswith(a)
StartsWith(b, a) == Len(b) >= Len(a) /\ SubSeq(b, 1, Len(a)) = a

-----------------------------------------------------------------------------
(* models/game.py *)

Game(title, platforms, release_date, genres) ==
    [title |-> title, platforms |-> platforms, release_date |-> release_date,
     genres |-> genres, ai_review |-> PyNone, ai_rating |-> PyNone]

\* `not platform_filter`: None and the empty list are falsy
FilterIsFalsy(f) == IsNone(f) \/ (f.t = "list" /\ f.v = <<>>)

\* (variant: the comparison without .lower())
TokenInPlatformNoLower(tok, platform) == StrContains(platform, tok)
\* filter_platform.lower() in platform.lower()
TokenInPlatform(tok, platform) == StrContains(StrLower(platform), StrLower(tok))

MatchesPlatformFilter(game, f) ==
    IF FilterIsFalsy(f)
    THEN TRUE
    ELSE \E i \in 1..Len(game.platforms) : \E j \in 1..Len(f.v) :
             TokenInPlatform(f.v[j], game.platforms[i])

-----------------------------------------------------------------------------
(* services/rawg_service.py: date window *)

\* f"{n:02d}"
Pad2(n) == IF n < 10 THEN "0" \o ToString(n) ELSE ToString(n)

IsLeap(y) == (y % 4 = 0 /\ y % 100 # 0) \/ y % 400 = 0

\* calendar.monthrange(year, month)[1]
MonthRangeDays(y, m) ==
    IF m = 2 THEN (IF IsLeap(y) THEN 29 ELSE 28)
    ELSE IF m \in {4, 6, 9, 11} THEN 30 ELSE 31

\* (variant: end on day 1 of month + 1, without a year roll-over)
BuildDateRangeNextMonth(y, m) ==
    <<ToString(y) \o "-" \o Pad2(m) \o "-01",
      ToString(y) \o "-" \o Pad2(m + 1) \o "-01">>
\* _build_date_range: first day, and the last day from calendar.monthrange
BuildDateRange(y, m) ==
    <<ToString(y) \o "-" \o Pad2(m) \o "-01",
      ToString(y) \o "-" \o Pad2(m) \o "-" \o ToString(MonthRangeDays(y, m))>>

\* main.py, GamesDB.fetch_games: the window of the older single-file program
LegacyDateRange(y, m) ==
    <<ToString(y) \o "-" \o Pad2(m) \o "-01",
      IF m = 12 THEN ToString(y + 1) \o "-01-01"
      ELSE ToString(y) \o "-" \o Pad2(m + 1) \o "-01">>

-----------------------------------------------------------------------------
(* services/rawg_service.py: normalisation of one raw upstream item *)

Absent == [t |-> "absent"]

\* dict.get(key, default) on a field that may be absent
DictGet(field, default) == IF field.t = "absent" THEN default ELSE field

RawItem(name, released, platforms, genres) ==
    [name |-> name, released |-> released, platforms |-> platforms, genres |-> genres]

ParsedGame(g) == [t |-> "game", v |-> g]
ParseRaises(e) == [t |-> "raise", exc |-> e]

ParseGameData(raw) ==
    LET platforms_data == DictGet(raw.platforms, PyList(<<>>))
        platforms == IF platforms_data.t # "list" THEN <<>> ELSE platforms_data.v
        genres_data == DictGet(raw.genres, PyList(<<>>))
    IN  IF genres_data.t = "str" /\ genres_data.v = <<>>
        THEN ParsedGame(Game(raw.name, platforms,      \* nothing to iterate in ""
                             DictGet(raw.released, PyNone), <<>>))
        ELSE IF genres_data.t # "list"
        THEN ParseRaises("TypeError")   \* iterating None / indexing a non-dict
        ELSE ParsedGame(Game(raw.name, platforms,
                             DictGet(raw.released, PyNone), genres_data.v))

-----------------------------------------------------------------------------
(* services/rawg_service.py: RAWGService.fetch_games *)

max_pages == 4

\* truthiness of data.get('next') and of data.get('results', [])
Truthy(x) ==
    CASE x.t = "none" -> FALSE
      [] x.t = "absent" -> FALSE
      [] x.t = "str" -> x.v # <<>>
      [] x.t = "list" -> x.v # <<>>
      [] OTHER -> TRUE

RequestError == [t |-> "error"]
PageData(results, next) == [t |-> "ok", results |-> results, next |-> next]

\* [parse(r) for r in results], stopping at the first item that raises
RECURSIVE ParseAll(_)
ParseAll(results) ==
    IF results = <<>> THEN ParsedGame(<<>>)
    ELSE LET head == ParseGameData(results[1])
         IN  IF head.t = "raise" THEN head
             ELSE LET rest == ParseAll(Tail(results))
                  IN  IF rest.t = "raise" THEN rest
                      ELSE ParsedGame(<<head.v>> \o rest.v)

\* (variant: page_games built back to front)
RECURSIVE PageGamesReversed(_, _)
PageGamesReversed(gs, f) ==
    IF gs = <<>> THEN <<>>
    ELSE PageGamesReversed(Tail(gs), f)
         \o (IF MatchesPlatformFilter(gs[1], f) THEN <<gs[1]>> ELSE <<>>)
\* page_games: the games of one page that pass the platform filter, in order
RECURSIVE PageGames(_, _)
PageGames(gs, f) ==
    IF gs = <<>> THEN <<>>
    ELSE (IF MatchesPlatformFilter(gs[1], f) THEN <<gs[1]>> ELSE <<>>)
         \o PageGames(Tail(gs), f)

-----------------------------------------------------------------------------
(* services/openai_service.py: response parsing *)

DigitChars == <<"0", "1", "2", "3", "4", "5", "6", "7", "8", "9">>

\* the character U+00B2 (superscript two): a digit for str.isdigit(), not for int()
Sup2 == "sup2"

\* the characters int() reads as digits
IsDecimal(c) == \E i \in 1..10 : DigitChars[i] = c

\* str.isdigit() of one character
IsDigit(c) == IsDecimal(c) \/ c = Sup2
DigitVal(c) == (CHOOSE i \in 1..10 : DigitChars[i] = c) - 1

\* int() of a non-empty string of digits
RECURSIVE DigitsValue(_)
DigitsValue(ds) ==
    IF ds = <<>> THEN 0
    ELSE 10 * DigitsValue(SubSeq(ds, 1, Len(ds) - 1)) + DigitVal(ds[Len(ds)])

IsSpace(c) == c \in {" ", "\t", "\n"}

\* str.strip()
RECURSIVE LStrip(_)
LStrip(s) == IF s # <<>> /\ IsSpace(s[1]) THEN LStrip(Tail(s)) ELSE s
RECURSIVE RStrip(_)
RStrip(s) ==
    IF s # <<>> /\ IsSpace(s[Len(s)]) THEN RStrip(SubSeq(s, 1, Len(s) - 1)) ELSE s
Strip(s) == RStrip(LStrip(s))

\* s.isdigit(): non-empty and digits only
AllDigits(s) == s # <<>> /\ \A i \in 1..Len(s) : IsDigit(s[i])

\* what int() accepts as an unsigned number
AllDecimal(s) == s # <<>> /\ \A i \in 1..Len(s) : IsDecimal(s[i])

\* "".join(filter(str.isdigit, line))
DigitsOf(line) == SelectSeq(line, IsDigit)

\* line.partition(":")[2]
AfterFirstColon(line) ==
    IF \E i \in 1..Len(line) : line[i] = ":"
    THEN LET k == CHOOSE i \in 1..Len(line) :
                      line[i] = ":" /\ \A j \in 1..(i - 1) : line[j] # ":"
         IN  SubSeq(line, k + 1, Len(line))
    ELSE <<>>

\* s[:n]
Prefix(s, n) == SubSeq(s, 1, IF Len(s) < n THEN Len(s) ELSE n)

\* " ".join(lines)
RECURSIVE JoinSpace(_)
JoinSpace(lines) ==
    IF lines = <<>> THEN <<>>
    ELSE IF Len(lines) = 1 THEN lines[1]
    ELSE lines[1] \o <<" ">> \o JoinSpace(Tail(lines))

\* str(n) for n >= 0
RECURSIVE StrOfNat(_)
StrOfNat(n) ==
    IF n < 10 THEN <<DigitChars[n + 1]>>
    ELSE StrOfNat(n \div 10) \o <<DigitChars[(n % 10) + 1]>>

PyBool(b) == [t |-> "bool", v |-> b]
PyFloat(text) == [t |-> "float", v |-> text]   \* a JSON number that is not an integer

\* str(x) of a decoded JSON value
StrOf(x) ==
    CASE x.t = "str" -> x.v
      [] x.t = "none" -> <<"N", "o", "n", "e">>
      [] x.t = "int" -> IF x.v < 0 THEN <<"-">> \o StrOfNat(0 - x.v) ELSE StrOfNat(x.v)
      [] x.t = "bool" -> IF x.v THEN <<"T", "r", "u", "e">> ELSE <<"F", "a", "l", "s", "e">>
      [] x.t = "float" -> x.v
      [] OTHER -> <<"[", "]">>

IntOk(n) == [t |-> "int", v |-> n]
IntRaises == [t |-> "raise", exc |-> "ValueError"]

\* int(s) for a str: surrounding whitespace and one sign are accepted
IntOfStr(s) ==
    LET body == Strip(s)
        signed == body # <<>> /\ body[1] \in {"+", "-"}
        digits == IF signed THEN Tail(body) ELSE body
    IN  IF AllDecimal(digits)
        THEN IntOk(IF signed /\ body[1] = "-" THEN 0 - DigitsValue(digits)
                   ELSE DigitsValue(digits))
        ELSE IntRaises

\* (variant: a string that int() rejects counts as no rating, without falling back)
RatingOfRawLenient(rating_raw) ==
    CASE rating_raw.t = "int" -> IntOk(rating_raw.v)
      [] rating_raw.t = "bool" -> IntOk(IF rating_raw.v THEN 1 ELSE 0)
      [] rating_raw.t = "str" -> IF IntOfStr(rating_raw.v).t = "raise" THEN PyNone
                                 ELSE IntOfStr(rating_raw.v)
      [] OTHER -> PyNone
\* int(rating_raw) if isinstance(rating_raw, (int, str)) else None
RatingOfRaw(rating_raw) ==
    CASE rating_raw.t = "int" -> IntOk(rating_raw.v)
      [] rating_raw.t = "bool" -> IntOk(IF rating_raw.v THEN 1 ELSE 0)
      [] rating_raw.t = "str" -> IntOfStr(rating_raw.v)
      [] OTHER -> PyNone

\* (variant: an out-of-range rating clamped into 1..10)
RangeCheckedClamped(n) == PyInt(IF n < 1 THEN 1 ELSE IF n > 10 THEN 10 ELSE n)
\* `if not (1 <= rating <= 10): rating = None`
RangeChecked(n) == IF 1 <= n /\ n <= 10 THEN PyInt(n) ELSE PyNone

\* the model's reply: its text as lines, and what json.loads makes of the text
Malformed == [t |-> "malformed"]
JsonNonDict == [t |-> "nondict"]
JsonDict(review, rating) == [t |-> "dict", review |-> review, rating |-> rating]
Content(json, lines) == [t |-> "text", json |-> json, lines |-> lines]

ParseOk(review, rating) == [t |-> "ok", v |-> <<review, rating>>]
FallThrough == [t |-> "fallthrough"]

\* the try block of _parse_json_response
StructuredParse(content) ==
    IF content.t = "none" THEN FallThrough              \* json.loads(None): TypeError
    ELSE IF content.json.t # "dict" THEN FallThrough    \* JSONDecodeError / no .get
    ELSE LET data == content.json
             review == Strip(StrOf(DictGet(data.review, PyStr(<<>>))))
             rating_raw == DictGet(data.rating, PyNone)
             converted == RatingOfRaw(rating_raw)
         IN  IF converted.t = "raise" THEN FallThrough  \* int("abc"): ValueError
             ELSE LET rating == IF converted.t = "none" THEN PyNone
                                ELSE RangeChecked(converted.v)
                  IN  IF review # <<>> THEN ParseOk(PyStr(review), rating)
                      ELSE FallThrough

RECENSIONE == <<"R", "E", "C", "E", "N", "S", "I", "O", "N", "E", ":">>
VOTO == <<"V", "O", "T", "O", ":">>

\* the `for line in lines` loop of _legacy_parse, from state <<review, rating>>;
\* int(digits[:2]) raises ValueError on a digit character that is not decimal
RECURSIVE LegacyScan(_, _)
LegacyScan(lines, acc) ==
    IF lines = <<>> THEN [t |-> "ok", v |-> acc]
    ELSE LET line == lines[1]
             digits == DigitsOf(line)
         IN  IF StartsWith(StrUpper(line), RECENSIONE)
             THEN LegacyScan(Tail(lines), <<Strip(AfterFirstColon(line)), acc[2]>>)
             ELSE IF StartsWith(StrUpper(line), VOTO) /\ digits # <<>>
             THEN IF AllDecimal(Prefix(digits, 2))
                  THEN LegacyScan(Tail(lines),
                                  <<acc[1], RangeChecked(DigitsValue(Prefix(digits, 2)))>>)
                  ELSE ParseRaises("ValueError")
             ELSE LegacyScan(Tail(lines), acc)

\* the lines kept when no RECENSIONE: line gave a review
IsReviewLine(ln) == ~AllDigits(Strip(ln)) /\ ~StartsWith(StrUpper(ln), VOTO)

LegacyParse(content) ==
    IF content.t = "none" THEN ParseRaises("AttributeError")  \* None.splitlines()
    ELSE LET scan == LegacyScan(content.lines, <<<<>>, PyNone>>)
         IN  IF scan.t = "raise" THEN scan
             ELSE LET scanned == scan.v
                      review == IF scanned[1] # <<>> THEN scanned[1]
                                ELSE Strip(JoinSpace(SelectSeq(content.lines, IsReviewLine)))
                  IN  ParseOk(IF review # <<>> THEN PyStr(review) ELSE PyNone, scanned[2])

ParseJsonResponse(content) ==
    LET structured == StructuredParse(content)
    IN  IF structured.t = "ok" THEN structured ELSE LegacyParse(content)

\* what self.client.chat.completions.create(...) can do
Throws == [t |-> "throws"]
Replies(content) == [t |-> "reply", content |-> content]

\* the chat requests one call of generate_review sends: none without a client
\* (`if not self.client: return None, None`), else one, built from the game
GenerateReviewSends(available, game) ==
    IF ~available THEN <<>> ELSE <<[prompt_title |-> game.title]>>

\* (variant: the except branch returning an error text as the review)
GenerateReviewErrorText(available, outcome) ==
    IF ~available THEN <<PyNone, PyNone>>
    ELSE IF outcome.t = "throws" THEN <<PyStr(<<"e", "r", "r", "o", "r">>), PyNone>>
    ELSE LET parsed == ParseJsonResponse(outcome.content)
         IN  IF parsed.t = "raise" THEN <<PyNone, PyNone>> ELSE parsed.v
\* generate_review: never raises; (None, None) without a client or on any exception
GenerateReview(available, outcome) ==
    IF ~available THEN <<PyNone, PyNone>>
    ELSE IF outcome.t = "throws" THEN <<PyNone, PyNone>>
    ELSE LET parsed == ParseJsonResponse(outcome.content)
         IN  IF parsed.t = "raise" THEN <<PyNone, PyNone>> ELSE parsed.v

-----------------------------------------------------------------------------
(* The catalog API and the callers' arguments explored by the model *)

MaxPageItems == 2       \* most raw items the catalog puts on one page

PC == <<"P", "C">>
NES == <<"N", "E", "S">>
SNES == <<"S", "N", "E", "S">>
PS5 == <<"P", "S", "5">>

rawDoom == RawItem("Doom", PyStr("2024-02-10"), PyList(<<PS5, PC>>), PyList(<<"Action">>))
rawZelda == RawItem("Zelda", PyNone, PyList(<<NES>>), Absent)

RawItems == {rawDoom, rawZelda}

RECURSIVE SeqsUpTo(_, _)
SeqsUpTo(S, n) ==
    IF n = 0 THEN {<<>>}
    ELSE LET shorter == SeqsUpTo(S, n - 1)
         IN  shorter \cup {Append(q, x) : q \in shorter, x \in S}

NextUrl == PyStr(<<"u">>)

\* what one page request can come back with when fetch_games is called directly
PageResponses ==
    {RequestError}
    \cup {PageData(r, n) : r \in {Absent} \cup {PyList(q) : q \in SeqsUpTo(RawItems, MaxPageItems)},
                           n \in {PyNone, NextUrl}}
    \cup {PageData(PyList(<<rawDoom>>), n) : n \in {Absent, PyStr(<<>>)}}

\* ... and when it is called by the controller's search
SearchPageResponses ==
    {RequestError,
     PageData(PyList(<<>>), PyNone),
     PageData(PyList(<<rawDoom>>), PyNone),
     PageData(PyList(<<rawZelda, rawDoom>>), Absent)}

\* two items as the catalog sends them, and the pages of a search-and-export session
rawQuake ==
    RawItem(<<"Q", "u", "a", "k", "e">>,
            PyStr(<<"2", "0", "2", "4", "-", "0", "2", "-", "1", "0">>),
            PyList(<<PC>>), PyList(<<<<"F", "P", "S">>>>))
rawYs == RawItem(<<"Y", "s">>, PyNone, PyList(<<SNES>>), Absent)

PipelinePageResponses ==
    {RequestError, PageData(PyList(<<rawQuake, rawYs>>), PyNone)}

UpstreamResponses(c) ==
    CASE c = "direct" -> PageResponses
      [] c = "pipeline" -> PipelinePageResponses
      [] OTHER -> SearchPageResponses

Filters == {PyNone, PyList(<<>>), PyList(<<<<"p", "c">>>>)}
FetchPeriods == {<<2023, 12>>}

-----------------------------------------------------------------------------
(* RAWGService.fetch_games as a process: one step per page request *)

FetchOp == IF caller = "direct" THEN "fetch_games" ELSE "search_games"

\* `return games`: to the direct caller, or back into search_games
FetchReturns(g) ==
    /\ games' = g
    /\ page' = page
    /\ IF caller = "direct"
       THEN pc' = "idle" /\ ret' = Return("fetch_games", g) /\ idx' = idx
       ELSE pc' = "enrich" /\ ret' = ret /\ idx' = 1

\* (variant: a failed page ends the fetch with the games kept so far)
FetchRaisesKeepsPartial(e) == FetchReturns(games)
\* an exception leaves fetch_games (and search_games, which does not catch it)
FetchRaises(e) ==
    /\ pc' = "idle"
    /\ ret' = Raise(FetchOp, e)
    /\ UNCHANGED <<games, page, idx>>

\* (variant: a loop without the page cap)
LoopContinuesUncapped(p) == TRUE
\* the `for page in range(1, max_pages + 1)` header after a completed iteration
LoopContinues(p) == p < max_pages

\* `if not data.get('next'): break`
BreaksOnNoNext(data) == ~Truthy(DictGet(data.next, PyNone))

\* (variant: stop when the filtered page is empty)
BreaksOnEmptyFiltered(results, page_games) == page_games = <<>>
\* `if not results: break`, on the raw items of the page
BreaksOnEmpty(results, page_games) == ~Truthy(results)

StartFetch ==
    /\ pc = "idle"
    /\ \E p \in FetchPeriods : \E f \in Filters :
        /\ year' = p[1]
        /\ month' = p[2]
        /\ platform_filter' = f
        /\ window' = BuildDateRange(p[1], p[2])
    /\ pc' = "fetch"
    /\ caller' = "direct"
    /\ include_ai_reviews' = FALSE
    /\ page' = 1
    /\ games' = <<>>
    /\ requests' = <<>>
    /\ upstream' = <<>>
    /\ calls' = <<>>
    /\ idx' = 0
    /\ ret' = NoRet
    /\ UNCHANGED <<random_range, client, ctlVars, pureVars, svcVars, expVars, held, completed, cfgVars>>

\* one iteration of the page loop, with the exit that follows it
FetchPage ==
    /\ pc = "fetch"
    /\ \E data \in UpstreamResponses(caller) :
        /\ requests' = Append(requests, page)
        /\ upstream' = Append(upstream, data)
        /\ IF data.t = "error"
           THEN FetchRaises("APIServiceError")
           ELSE LET results == DictGet(data.results, PyList(<<>>))
                    parsed == ParseAll(results.v)
                    page_games == PageGames(parsed.v, platform_filter)
                IN  IF BreaksOnEmpty(results, IF parsed.t = "game" THEN page_games ELSE <<>>)
                    THEN FetchReturns(games)
                    ELSE IF parsed.t = "raise"
                    THEN FetchRaises(parsed.exc)
                    ELSE IF BreaksOnNoNext(data)
                    THEN FetchReturns(games \o page_games)
                    ELSE IF LoopContinues(page)
                    THEN /\ games' = games \o page_games
                         /\ page' = page + 1
                         /\ UNCHANGED <<pc, ret, idx>>
                    ELSE FetchReturns(games \o page_games)
    /\ UNCHANGED <<caller, year, month, platform_filter, include_ai_reviews, window,
                   calls, random_range, client, ctlVars, pureVars, svcVars, expVars,
                   held, completed, cfgVars>>

-----------------------------------------------------------------------------
(* config/config.py: the Config singleton *)

\* the Config class as defined: no instance, `_initialized = False`
ConfigClass ==
    [instance |-> NoInstance, created |-> 0, initialized |-> FALSE,
     rawg_api_key |-> PyNone, openai_api_key |-> PyNone, loads |-> 0, attempts |-> 0]

Environment(rawg, openai, file) ==
    [RAWG_API_KEY |-> rawg, OPENAI_API_KEY |-> openai, dotenv |-> file]

\* load_dotenv(): the .env entry is set unless the variable is already there
LoadDotenv(env) ==
    [env EXCEPT !.RAWG_API_KEY = IF env.RAWG_API_KEY.t = "none" THEN env.dotenv ELSE @]

\* (variant: only the class attribute, which stays False, is looked at)
InitializedOnClass(cfg) == FALSE
\* `self._initialized`: the instance attribute once __init__ has set it, the
\* class attribute `_initialized = False` before
Initialized(cfg) == cfg.initialized

\* Config.__new__: a new object only while `_instance is None`
ConfigNew(cfg) ==
    IF cfg.instance = NoInstance
    THEN [cfg EXCEPT !.instance = cfg.created + 1, !.created = cfg.created + 1]
    ELSE cfg

\* Config(): __new__, then __init__ on the object __new__ returned
ConstructConfig(cfg, env) ==
    LET made == ConfigNew(cfg)
    IN  IF Initialized(made)
        THEN [t |-> "ok", config |-> made, environ |-> env]
        ELSE LET loaded == LoadDotenv(env)
                 set == [made EXCEPT !.loads = made.loads + 1,
                                     !.rawg_api_key = loaded.RAWG_API_KEY,
                                     !.openai_api_key = loaded.OPENAI_API_KEY,
                                     !.initialized = TRUE]
             IN  [t |-> IF Truthy(set.rawg_api_key) THEN "ok" ELSE "raise",
                  config |-> set, environ |-> loaded]

\* an environment with both keys set and no .env entry; Config() was called once
KeysInPlace == Environment(PyStr(<<"k", "1">>), PyStr(<<"o", "1">>), PyNone)
ConfigInPlace == ConstructConfig(ConfigClass, KeysInPlace).config

\* the state before any call: no frame, a controller that has not searched yet
InitIdleButFiles ==
    /\ pc = "idle"
    /\ caller = "direct"
    /\ year = 0
    /\ month = 0
    /\ platform_filter = PyNone
    /\ include_ai_reviews = FALSE
    /\ window = <<"", "">>
    /\ upstream = <<>>
    /\ page = 0
    /\ games = <<>>
    /\ requests = <<>>
    /\ idx = 0
    /\ calls = <<>>
    /\ random_range = <<0, 0>>
    /\ last_results = <<>>
    /\ last_search_year = PyNone
    /\ last_search_month = PyNone
    /\ ret = NoRet
    /\ completed = NoSearch
    /\ ctor = NoCtor
    /\ sent = <<>>
    /\ held = NoHeld

InitIdle ==
    /\ InitIdleButFiles
    /\ files = NoFiles
    /\ environ = KeysInPlace
    /\ config = ConfigInPlace

InitFetch ==
    /\ InitIdle
    /\ client = FALSE
    /\ openpyxl = FALSE
    /\ pure_in = NoPure
    /\ pure_out = NoRet

NextFetch == StartFetch \/ FetchPage

SpecFetch == InitFetch /\ [][NextFetch]_vars

-----------------------------------------------------------------------------
(* Game.matches_platform_filter and the two date windows as pure functions *)

FilterPlatformLists ==
    {<<>>, <<PC>>, <<SNES>>, <<PC, NES>>, <<PS5, SNES>>, <<<<"p", "c">>>>}

FilterArguments ==
    {PyNone, PyList(<<>>)}
    \cup {PyList(<<tok>>) : tok \in {<<"p", "c">>, <<"P", "C">>, <<"n", "e", "s">>,
                                     <<"P", "s">>, <<"x">>, <<>>, <<"s", "n", "e", "s", "5">>}}
    \cup {PyList(<<<<"x">>, <<"N", "e", "s">>>>)}

DateYears == {1900, 2000, 2023, 2024, 2025}

InitFilter ==
    /\ InitIdle
    /\ client = FALSE
    /\ openpyxl = FALSE
    /\ \E pl \in FilterPlatformLists : \E f \in FilterArguments :
           pure_in = [fn |-> "filter", game |-> Game("G", pl, PyNone, <<>>), f |-> f]
    /\ pure_out = NoRet

ApplyMatchesPlatformFilter ==
    /\ pure_in.fn = "filter"
    /\ pure_out = NoRet
    /\ pure_out' = Return("matches_platform_filter",
                          MatchesPlatformFilter(pure_in.game, pure_in.f))
    /\ UNCHANGED <<frameVars, client, ctlVars, ret, pure_in, svcVars, expVars, held, completed, cfgVars>>

NextFilter == ApplyMatchesPlatformFilter

SpecFilter == InitFilter /\ [][NextFilter]_vars

InitDate ==
    /\ InitIdle
    /\ client = FALSE
    /\ openpyxl = FALSE
    /\ \E y \in DateYears : \E m \in 1..12 :
           pure_in = [fn |-> "date", year |-> y, month |-> m]
    /\ pure_out = NoRet

ApplyBuildDateRange ==
    /\ pure_in.fn = "date"
    /\ pure_out = NoRet
    /\ pure_out' = Return("_build_date_range",
                          BuildDateRange(pure_in.year, pure_in.month))
    /\ UNCHANGED <<frameVars, client, ctlVars, ret, pure_in, svcVars, expVars, held, completed, cfgVars>>

ApplyLegacyDateRange ==
    /\ pure_in.fn = "date"
    /\ pure_out = NoRet
    /\ pure_out' = Return("GamesDB.fetch_games",
                          LegacyDateRange(pure_in.year, pure_in.month))
    /\ UNCHANGED <<frameVars, client, ctlVars, ret, pure_in, svcVars, expVars, held, completed, cfgVars>>

NextDate == ApplyBuildDateRange \/ ApplyLegacyDateRange

SpecDate == InitDate /\ [][NextDate]_vars

-----------------------------------------------------------------------------
(* The review service's replies explored under the controller *)

\* {"review":"ok","rating":7}
contentGood7 ==
    Content(JsonDict(PyStr(<<"o", "k">>), PyInt(7)),
            <<<<"{", "\"", "r", "e", "v", "i", "e", "w", "\"", ":", "\"",
              "o", "k", "\"", ",", "\"", "r", "a", "t", "i", "n", "g", "\"",
              ":", "7", "}">>>>)

\* {"review":"ok","rating":15}
contentJson15 ==
    Content(JsonDict(PyStr(<<"o", "k">>), PyInt(15)),
            <<<<"{", "\"", "r", "e", "v", "i", "e", "w", "\"", ":", "\"",
              "o", "k", "\"", ",", "\"", "r", "a", "t", "i", "n", "g", "\"",
              ":", "1", "5", "}">>>>)

\* RECENSIONE: ok / VOTO: 15   (two lines)
contentLegacy15 ==
    Content(Malformed,
            <<<<"R", "E", "C", "E", "N", "S", "I", "O", "N", "E", ":", " ",
              "o", "k">>,
              <<"V", "O", "T", "O", ":", " ", "1", "5">>>>)

\* {ok
contentBroken == Content(Malformed, <<<<"{", "o", "k">>>>)

\* the empty reply
contentEmpty == Content(Malformed, <<>>)

\* VOTO: 7
contentVotoOnly == Content(Malformed, <<<<"V", "O", "T", "O", ":", " ", "7">>>>)

\* bello / VOTO: <U+00B2>   (two lines)
contentVotoSup2 ==
    Content(Malformed, <<<<"b", "e", "l", "l", "o">>, <<"V", "O", "T", "O", ":", " ", Sup2>>>>)

SearchReviewOutcomes ==
    {Throws, Replies(contentGood7), Replies(contentJson15), Replies(contentLegacy15),
     Replies(contentBroken), Replies(contentEmpty), Replies(contentVotoOnly),
     Replies(contentVotoSup2)}

\* in a search-and-export session the chat request fails or answers well
PipelineReviewOutcomes == {Throws, Replies(contentGood7)}

SearchOutcomes(c) == IF c = "pipeline" THEN PipelineReviewOutcomes ELSE SearchReviewOutcomes

SearchPeriods == {<<2023, 12>>, <<2024, 2>>}
SearchFilters == {PyNone, PyList(<<<<"p", "c">>>>)}
RandomYears == {2023, 2024}

-----------------------------------------------------------------------------
(* services/openai_service.py: OpenAIReviewService as an object of its own *)

\* (variant: only the constructor argument is looked at)
EffectiveKeyArgumentOnly(key_arg, env_key) == key_arg
\* `api_key or os.getenv("OPENAI_API_KEY")`
EffectiveKey(key_arg, env_key) == IF Truthy(key_arg) THEN key_arg ELSE env_key

\* __init__: self.client is set when the openai package was imported, a key was
\* found and OpenAI(api_key=...) did not raise
ConstructClient(key_arg, env_key, sdk, ctor_ok) ==
    /\ sdk
    /\ Truthy(EffectiveKey(key_arg, env_key))
    /\ ctor_ok

\* json.dumps-like text of one decoded value
JsonValueText(x) ==
    CASE x.t = "str" -> <<"\"">> \o x.v \o <<"\"">>
      [] x.t = "none" -> <<"n", "u", "l", "l">>
      [] x.t = "int" -> StrOf(x)
      [] x.t = "bool" -> IF x.v THEN <<"t", "r", "u", "e">> ELSE <<"f", "a", "l", "s", "e">>
      [] x.t = "float" -> x.v
      [] OTHER -> <<"[", "]">>

JsonMemberText(key, x) ==
    IF x.t = "absent" THEN <<>> ELSE <<<<"\"">> \o key \o <<"\"", ":", " ">> \o JsonValueText(x)>>

RECURSIVE JoinComma(_)
JoinComma(parts) ==
    IF parts = <<>> THEN <<>>
    ELSE IF Len(parts) = 1 THEN parts[1]
    ELSE parts[1] \o <<",", " ">> \o JoinComma(Tail(parts))

\* the one-line text of the object {"review": ..., "rating": ...}
JsonObjectText(review, rating) ==
    <<"{">> \o JoinComma(JsonMemberText(<<"r", "e", "v", "i", "e", "w">>, review)
                         \o JsonMemberText(<<"r", "a", "t", "i", "n", "g">>, rating))
    \o <<"}">>

\* a reply that is the JSON object with these two members
ObjectReply(review, rating) ==
    Content(JsonDict(review, rating), <<JsonObjectText(review, rating)>>)

ReviewValues ==
    {Absent, PyNone, PyStr(<<>>), PyStr(<<" ">>), PyStr(<<"o", "k">>), PyInt(5)}

RatingValues ==
    {Absent, PyNone, PyInt(0), PyInt(1), PyInt(7), PyInt(10), PyInt(11), PyInt(0 - 3),
     PyStr(<<"7">>), PyStr(<<" ", "1", "0", " ">>), PyStr(<<"1", "5">>),
     PyStr(<<"a", "b", "c">>), PyStr(<<Sup2>>), PyStr(<<>>),
     PyBool(TRUE), PyFloat(<<"7", ".", "5">>), PyList(<<>>)}

lineRecensione == <<"R", "E", "C", "E", "N", "S", "I", "O", "N", "E", ":", " ", "o", "k">>
lineRecensioneLower == <<"r", "e", "c", "e", "n", "s", "i", "o", "n", "e", ":", "a", ":", "b", " ">>
lineBello == <<"b", "e", "l", "l", "o">>

VotoLine(rest) == <<"V", "O", "T", "O", ":">> \o rest

\* replies that json.loads rejects, as their lines
MalformedLines ==
    {<<>>,
     <<<<"{", "o", "k">>>>,
     <<lineBello>>,
     <<lineBello, <<"7">>>>,
     <<<<" ", "1", "2", " ">>, <<"3">>>>,
     <<lineRecensione, VotoLine(<<" ", "7">>)>>,
     <<lineRecensione, VotoLine(<<" ", "7", "/", "1", "0">>)>>,
     <<lineRecensione, VotoLine(<<" ", "1", "5">>)>>,
     <<lineRecensioneLower, <<"v", "o", "t", "o", ":", " ", "9">>>>,
     <<VotoLine(<<" ", "7">>)>>,
     <<VotoLine(<<" ", "0">>)>>,
     <<VotoLine(<<" ", "x">>)>>,
     <<VotoLine(<<" ", Sup2>>)>>,
     <<lineBello, VotoLine(<<" ", "7", Sup2>>)>>,
     <<lineBello, VotoLine(<<" ", "1", "2", Sup2>>)>>,
     <<lineBello, VotoLine(<<" ", "8">>), VotoLine(<<" ", "1", "5">>)>>,
     <<lineBello, VotoLine(<<" ", "8">>), VotoLine(<<>>)>>,
     <<<<" ">> \o lineRecensione>>,
     <<<<"R", "E", "C", "E", "N", "S", "I", "O", "N", "E", ":">>, VotoLine(<<" ", "9">>)>>}

\* message.content of a reply: None, a JSON object, other JSON, or no JSON at all
ParseContents ==
    {PyNone}
    \cup {ObjectReply(r, n) : r \in ReviewValues, n \in RatingValues}
    \cup {Content(JsonNonDict, <<<<"[", "1", "]">>>>), Content(JsonNonDict, <<<<"7">>>>)}
    \cup {Content(Malformed, ls) : ls \in MalformedLines}

\* what a request of a directly called generate_review can come back with
ReviewOutcomes == SearchReviewOutcomes \cup {Replies(PyNone)}

KeyArguments == {PyNone, PyStr(<<>>), PyStr(<<"s", "k">>)}
EnvironmentKeys == {PyNone, PyStr(<<>>), PyStr(<<"e", "k">>)}

gameDoom == Game("Doom", <<PS5, PC>>, PyStr("2024-02-10"), <<"Action">>)

\* the parser steps one call of _parse_json_response runs
ParserAttempts(content) ==
    IF StructuredParse(content).t = "ok" THEN <<"structured">>
    ELSE <<"structured", "legacy">>

\* OpenAIReviewService(api_key)
NewReviewService ==
    /\ pc = "idle"
    /\ \E k \in KeyArguments : \E e \in EnvironmentKeys :
       \E sdk \in BOOLEAN : \E ok \in BOOLEAN :
        /\ ctor' = [t |-> "ctor", key_arg |-> k, env_key |-> e, sdk |-> sdk,
                    ctor_ok |-> ok, api_key |-> EffectiveKey(k, e)]
        /\ client' = ConstructClient(k, e, sdk, ok)
    /\ sent' = <<>>
    /\ ret' = NoRet
    /\ pure_in' = NoPure
    /\ UNCHANGED <<frameVars, ctlVars, pure_out, expVars, held, completed, cfgVars>>

\* is_available()
IsAvailable ==
    /\ pc = "idle"
    /\ ctor # NoCtor
    /\ ret' = Return("is_available", client)
    /\ pure_in' = NoPure
    /\ sent' = <<>>
    /\ UNCHANGED <<frameVars, client, ctlVars, pure_out, ctor, expVars, held, completed, cfgVars>>

\* generate_review(game): the request, when one is sent, is answered by `outcome`
GenerateReviewCall ==
    /\ pc = "idle"
    /\ ctor # NoCtor
    /\ \E outcome \in (IF client THEN ReviewOutcomes ELSE {Throws}) :
        /\ pure_in' = [fn |-> "generate_review", game |-> gameDoom,
                       outcome |-> IF client THEN outcome ELSE NoPure]
        /\ ret' = Return("generate_review", GenerateReview(client, outcome))
    /\ sent' = GenerateReviewSends(client, gameDoom)
    /\ UNCHANGED <<frameVars, client, ctlVars, pure_out, ctor, expVars, held, completed, cfgVars>>

InitReview ==
    /\ InitIdle
    /\ client = FALSE
    /\ openpyxl = FALSE
    /\ pure_in = NoPure
    /\ pure_out = NoRet

NextReview == NewReviewService \/ IsAvailable \/ GenerateReviewCall

SpecReview == InitReview /\ [][NextReview]_vars

\* OpenAIReviewService._parse_json_response(content), a static method
InitParse ==
    /\ InitIdle
    /\ client = FALSE
    /\ openpyxl = FALSE
    /\ \E content \in ParseContents :
           pure_in = [fn |-> "_parse_json_response", content |-> content]
    /\ pure_out = NoRet

ApplyParseJsonResponse ==
    /\ pure_in.fn = "_parse_json_response"
    /\ pure_out = NoRet
    /\ LET parsed == ParseJsonResponse(pure_in.content)
           attempts == ParserAttempts(pure_in.content)
       IN  pure_out' = IF parsed.t = "raise"
                       THEN [kind |-> "raise", op |-> "_parse_json_response",
                             exc |-> parsed.exc, attempts |-> attempts]
                       ELSE [kind |-> "return", op |-> "_parse_json_response",
                             value |-> parsed.v, attempts |-> attempts]
    /\ UNCHANGED <<frameVars, client, ctlVars, ret, pure_in, svcVars, expVars, held, completed, cfgVars>>

NextParse == ApplyParseJsonResponse

SpecParse == InitParse /\ [][NextParse]_vars

-----------------------------------------------------------------------------
(* models/game.py: the export view of a record *)

NA == <<"N", "/", "A">>

\* `x or default` for an Optional[str]
TextOr(x, default) == IF Truthy(x) THEN x.v ELSE default

\* platforms_str, genres_str: ", ".join(...)
PlatformsStr(g) == JoinComma(g.platforms)
GenresStr(g) == JoinComma(g.genres)

\* (variant: the number alone)
AiRatingStrBare(g) == IF g.ai_rating.t = "int" THEN StrOf(g.ai_rating) ELSE NA
\* ai_rating_str: f"{rating}/10" if rating else "N/A"
AiRatingStr(g) ==
    IF g.ai_rating.t = "int" /\ g.ai_rating.v # 0
    THEN StrOf(g.ai_rating) \o <<"/", "1", "0">>
    ELSE NA

\* (variant: the review and rating keys are there for every record)
ToDictWithReviewKeys(g) ==
    <<<<"Title", g.title>>,
      <<"Platforms", PlatformsStr(g)>>,
      <<"Release Date", TextOr(g.release_date, NA)>>,
      <<"Genres", GenresStr(g)>>,
      <<"AI Review", TextOr(g.ai_review, NA)>>,
      <<"AI Rating", AiRatingStr(g)>>>>
\* to_dict(): an ordered dict, as its (key, value) pairs in insertion order
ToDict(g) ==
    <<<<"Title", g.title>>,
      <<"Platforms", PlatformsStr(g)>>,
      <<"Release Date", TextOr(g.release_date, NA)>>,
      <<"Genres", GenresStr(g)>>>>
    \o (IF g.ai_review.t # "none"
        THEN <<<<"AI Review", TextOr(g.ai_review, NA)>>, <<"AI Rating", AiRatingStr(g)>>>>
        ELSE <<>>)

DictKeys(d) == [i \in 1..Len(d) |-> d[i][1]]
DictValues(d) == [i \in 1..Len(d) |-> d[i][2]]
DictHas(d, k) == \E i \in 1..Len(d) : d[i][1] = k
DictAt(d, k) == d[CHOOSE i \in 1..Len(d) : d[i][1] = k][2]

-----------------------------------------------------------------------------
(* exporters/strategies.py: the four strategies *)

\* what an export did to the file at filepath
NoWrite == [t |-> "untouched"]
Writes(content) == [t |-> "written", content |-> content]

ExportDone(write) == [t |-> "ok", write |-> write]
ExportRaises(e, write) == [t |-> "raise", exc |-> e, write |-> write]

\* the first game whose row DictWriter refuses (a key outside fieldnames), or 0
FirstRefusedRow(gs, fieldnames) ==
    LET Refused(i) == \E k \in 1..Len(ToDict(gs[i])) :
                          ~(\E j \in 1..Len(fieldnames) : fieldnames[j] = ToDict(gs[i])[k][1])
    IN  IF \E i \in 1..Len(gs) : Refused(i)
        THEN CHOOSE i \in 1..Len(gs) : Refused(i) /\ \A j \in 1..(i - 1) : ~Refused(j)
        ELSE 0

\* DictWriter.writerow: the cells in fieldnames order, '' for a missing key
CsvRow(g, fieldnames) ==
    [j \in 1..Len(fieldnames) |->
        IF DictHas(ToDict(g), fieldnames[j]) THEN DictAt(ToDict(g), fieldnames[j]) ELSE <<>>]

CsvFile(header, rows) == [fmt |-> "csv", header |-> header, rows |-> rows]

\* `fieldnames = list(games[0].to_dict().keys())`
CsvFieldnames(gs) == DictKeys(ToDict(gs[1]))

\* (variant: the file is opened before the empty collection is rejected)
CSVExportOpensFirst(gs) ==
    IF gs = <<>> THEN ExportRaises("ExportError", Writes(CsvFile(<<>>, <<>>)))
    ELSE ExportDone(Writes(CsvFile(CsvFieldnames(gs),
                                   [i \in 1..Len(gs) |-> CsvRow(gs[i], CsvFieldnames(gs))])))
\* CSVExportStrategy.export
CSVExport(gs) ==
    IF gs = <<>> THEN ExportRaises("ExportError", NoWrite)
    ELSE LET fieldnames == CsvFieldnames(gs)
             bad == FirstRefusedRow(gs, fieldnames)
             upto == IF bad = 0 THEN Len(gs) ELSE bad - 1
             rows == [i \in 1..upto |-> CsvRow(gs[i], fieldnames)]
         IN  IF bad = 0
             THEN ExportDone(Writes(CsvFile(fieldnames, rows)))
             ELSE ExportRaises("ValueError", Writes(CsvFile(fieldnames, rows)))

\* MarkdownExportStrategy.export: the title lines and the table handed to tabulate
MarkdownExport(gs) ==
    IF gs = <<>> THEN ExportRaises("ExportError", NoWrite)
    ELSE ExportDone(Writes([fmt |-> "md", total |-> Len(gs),
                            header |-> DictKeys(ToDict(gs[1])),
                            rows |-> [i \in 1..Len(gs) |-> DictValues(ToDict(gs[i]))]]))

\* XLSXExportStrategy.export: game_dict[header] raises KeyError before wb.save
XLSXExport(gs, available) ==
    IF ~available THEN ExportRaises("ExportError", NoWrite)
    ELSE IF gs = <<>> THEN ExportRaises("ExportError", NoWrite)
    ELSE LET headers == DictKeys(ToDict(gs[1]))
             Lacks(i) == \E j \in 1..Len(headers) : ~DictHas(ToDict(gs[i]), headers[j])
         IN  IF \E i \in 1..Len(gs) : Lacks(i)
             THEN ExportRaises("KeyError", NoWrite)
             ELSE ExportDone(Writes(
                      [fmt |-> "xlsx", header |-> headers,
                       rows |-> [i \in 1..Len(gs) |->
                                    [j \in 1..Len(headers) |->
                                        DictAt(ToDict(gs[i]), headers[j])]]]))

-----------------------------------------------------------------------------
(* exporters/strategies.py: XMLExportStrategy, and reading its file back *)

\* An XML text is a sequence of tokens: a tag, or one character of character
\* data (an entity reference such as &amp; is one token).
XmlDecl == [k |-> "decl", tag |-> "xml"]
Open(tag) == [k |-> "open", tag |-> tag]
Close(tag) == [k |-> "close", tag |-> tag]
Empty(tag) == [k |-> "empty", tag |-> tag]
Ch(c) == [k |-> "c", tag |-> c]

Chars(text) == [i \in 1..Len(text) |-> Ch(text[i])]

\* ElementTree._escape_cdata
EscapeCdata(text) ==
    [i \in 1..Len(text) |->
        CASE text[i] = "&" -> "&amp;"
          [] text[i] = "<" -> "&lt;"
          [] text[i] = ">" -> "&gt;"
          [] OTHER -> text[i]]

\* minidom._write_data
WriteData(text) ==
    [i \in 1..Len(text) |->
        CASE text[i] = "&" -> "&amp;"
          [] text[i] = "<" -> "&lt;"
          [] text[i] = "\"" -> "&quot;"
          [] text[i] = ">" -> "&gt;"
          [] OTHER -> text[i]]

\* what an XML parser makes of character data
Unescape(data) ==
    [i \in 1..Len(data) |->
        CASE data[i] = "&amp;" -> "&"
          [] data[i] = "&lt;" -> "<"
          [] data[i] = "&gt;" -> ">"
          [] data[i] = "&quot;" -> "\""
          [] OTHER -> data[i]]

\* the element tree built by XMLExportStrategy.export: tag, text, children
Leaf(tag, text) == [tag |-> tag, text |-> text, children |-> <<>>]
Node(tag, children) == [tag |-> tag, text |-> <<>>, children |-> children]

\* the <game> element of one record
XmlGameElement(g, has_ai_reviews) ==
    Node("game",
         <<Leaf("title", g.title),
           Leaf("platforms", PlatformsStr(g)),
           Leaf("release_date", TextOr(g.release_date, NA)),
           Leaf("genres", GenresStr(g))>>
         \o (IF has_ai_reviews
             THEN <<Leaf("ai_review", TextOr(g.ai_review, NA)),
                    Leaf("ai_rating", AiRatingStr(g))>>
             ELSE <<>>))

\* str(has_ai_reviews).lower()
BoolLowerText(b) == IF b THEN <<"t", "r", "u", "e">> ELSE <<"f", "a", "l", "s", "e">>

\* datetime.now().strftime(...): some text without markup
ExportDateText == <<"n", "o", "w">>

\* (variant: the <game> elements added last record first)
XmlGameElementsReversed(gs, has_ai_reviews) ==
    [i \in 1..Len(gs) |-> XmlGameElement(gs[Len(gs) + 1 - i], has_ai_reviews)]
\* `for game in games: game_element = ET.SubElement(games_element, "game") ...`
XmlGameElements(gs, has_ai_reviews) ==
    [i \in 1..Len(gs) |-> XmlGameElement(gs[i], has_ai_reviews)]

XmlTree(gs) ==
    LET has_ai_reviews == \E i \in 1..Len(gs) : gs[i].ai_review.t # "none"
    IN  Node("games_database",
             <<Node("metadata",
                    <<Leaf("export_date", ExportDateText),
                      Leaf("total_games", StrOfNat(Len(gs))),
                      Leaf("includes_ai_reviews", BoolLowerText(has_ai_reviews))>>),
               Node("games", XmlGameElements(gs, has_ai_reviews))>>)

\* ET.tostring followed by minidom.parseString: the text of a node as the DOM
\* holds it (escaped by the one, unescaped by the other)
DomText(text) == Unescape(EscapeCdata(text))

Indent(depth) == [i \in 1..(2 * depth) |-> Ch(" ")]
Newline == Ch("\n")

RECURSIVE Flatten(_)
Flatten(seqs) == IF seqs = <<>> THEN <<>> ELSE seqs[1] \o Flatten(Tail(seqs))

\* toprettyxml(indent="  ") of one element: Element.writexml
RECURSIVE PrettyElement(_, _)
PrettyElement(e, depth) ==
    IF e.children = <<>>
    THEN IF DomText(e.text) = <<>>
         THEN Indent(depth) \o <<Empty(e.tag), Newline>>
         ELSE Indent(depth) \o <<Open(e.tag)>> \o Chars(WriteData(DomText(e.text)))
              \o <<Close(e.tag), Newline>>
    ELSE Indent(depth) \o <<Open(e.tag), Newline>>
         \o Flatten([i \in 1..Len(e.children) |-> PrettyElement(e.children[i], depth + 1)])
         \o Indent(depth) \o <<Close(e.tag), Newline>>

PrettyXml(tree) == <<XmlDecl, Newline>> \o PrettyElement(tree, 0)

\* str.split('\n')
RECURSIVE SplitLines(_)
SplitLines(tokens) ==
    IF \E i \in 1..Len(tokens) : tokens[i] = Newline
    THEN LET k == CHOOSE i \in 1..Len(tokens) :
                      tokens[i] = Newline /\ \A j \in 1..(i - 1) : tokens[j] # Newline
         IN  <<SubSeq(tokens, 1, k - 1)>> \o SplitLines(SubSeq(tokens, k + 1, Len(tokens)))
    ELSE <<tokens>>

\* line.strip() is empty
IsBlankLine(line) == \A i \in 1..Len(line) : line[i].k = "c" /\ IsSpace(line[i].tag)

\* '\n'.join(lines)
RECURSIVE JoinLines(_)
JoinLines(lines) ==
    IF lines = <<>> THEN <<>>
    ELSE IF Len(lines) = 1 THEN lines[1]
    ELSE lines[1] \o <<Newline>> \o JoinLines(Tail(lines))

KeepsLine(line) == ~IsBlankLine(line)

\* the text written to the file: the pretty-printed lines that are not blank
XmlFileText(gs) == JoinLines(SelectSeq(SplitLines(PrettyXml(XmlTree(gs))), KeepsLine))

\* XMLExportStrategy.export
XMLExport(gs) ==
    IF gs = <<>> THEN ExportRaises("ExportError", NoWrite)
    ELSE ExportDone(Writes([fmt |-> "xml", text |-> XmlFileText(gs)]))

\* Reading the file back (ElementTree.parse): the elements in document order,
\* a childless element with the character data between its tags
XmlItems(tokens) ==
    LET IsTag(i) == tokens[i].k # "c"
        tags == SelectSeq([i \in 1..Len(tokens) |-> i], IsTag)
        Skip == [k |-> "skip", tag |-> "", text |-> <<>>]
        Item(j) ==
            LET i == tags[j]
                t == tokens[i]
            IN  CASE t.k = "empty" -> [k |-> "leaf", tag |-> t.tag, text |-> <<>>]
                  [] t.k = "open" ->
                         IF j < Len(tags) /\ tokens[tags[j + 1]] = Close(t.tag)
                         THEN [k |-> "leaf", tag |-> t.tag,
                               text |-> Unescape([m \in 1..(tags[j + 1] - i - 1) |->
                                                     tokens[i + m].tag])]
                         ELSE [k |-> "begin", tag |-> t.tag, text |-> <<>>]
                  [] t.k = "close" ->
                         IF j > 1 /\ tokens[tags[j - 1]] = Open(t.tag)
                         THEN Skip
                         ELSE [k |-> "end", tag |-> t.tag, text |-> <<>>]
                  [] OTHER -> Skip
        Kept(x) == x.k # "skip"
    IN  SelectSeq([j \in 1..Len(tags) |-> Item(j)], Kept)

\* root.find('games'): one entry per <game>, each the leaves inside it, in order
RECURSIVE GameElements(_)
GameElements(items) ==
    IF \E i \in 1..Len(items) : items[i].k = "begin" /\ items[i].tag = "game"
    THEN LET b == CHOOSE i \in 1..Len(items) :
                      /\ items[i].k = "begin" /\ items[i].tag = "game"
                      /\ \A j \in 1..(i - 1) : ~(items[j].k = "begin" /\ items[j].tag = "game")
             e == CHOOSE i \in (b + 1)..Len(items) :
                      /\ items[i].k = "end" /\ items[i].tag = "game"
                      /\ \A j \in (b + 1)..(i - 1) : ~(items[j].k = "end" /\ items[j].tag = "game")
         IN  <<SubSeq(items, b + 1, e - 1)>> \o GameElements(SubSeq(items, e + 1, Len(items)))
    ELSE <<>>

\* element.findtext(tag) among the leaves of one element
FindText(leaves, tag) ==
    (leaves[CHOOSE i \in 1..Len(leaves) : leaves[i].tag = tag]).text

HasChild(leaves, tag) == \E i \in 1..Len(leaves) : leaves[i].tag = tag

\* the document read back: the two metadata texts and the game elements
ReadXml(text) ==
    LET items == XmlItems(text)
    IN  [total_games |-> FindText(items, "total_games"),
         includes_ai_reviews |-> FindText(items, "includes_ai_reviews"),
         games |-> GameElements(items)]

-----------------------------------------------------------------------------
(* exporters/strategies.py: ExportStrategyFactory;  exporters/export_manager.py *)

nameCSV == <<"C", "S", "V">>
nameMarkdown == <<"M", "a", "r", "k", "d", "o", "w", "n">>
nameXLSX == <<"X", "L", "S", "X", " ", "(", "E", "x", "c", "e", "l", ")">>
nameXML == <<"X", "M", "L">>

\* f"{name} - Non disponibile"
Marker == <<" ", "-", " ", "N", "o", "n", " ", "d", "i", "s", "p", "o", "n", "i", "b", "i", "l", "e">>

\* ExportStrategyFactory._strategies, in insertion order
Registry ==
    <<[name |-> nameCSV, strategy |-> "CSVExportStrategy"],
      [name |-> nameMarkdown, strategy |-> "MarkdownExportStrategy"],
      [name |-> nameXLSX, strategy |-> "XLSXExportStrategy"],
      [name |-> nameXML, strategy |-> "XMLExportStrategy"]>>

\* the is_available property of each strategy class
StrategyIsAvailable(strategy, available) ==
    IF strategy = "XLSXExportStrategy" THEN available ELSE TRUE

\* the extension property of each strategy class
Extension(strategy) ==
    CASE strategy = "CSVExportStrategy" -> ".csv"
      [] strategy = "MarkdownExportStrategy" -> ".md"
      [] strategy = "XLSXExportStrategy" -> ".xlsx"
      [] strategy = "XMLExportStrategy" -> ".xml"

\* strategy.export(games, filepath)
StrategyExport(strategy, gs, available) ==
    CASE strategy = "CSVExportStrategy" -> CSVExport(gs)
      [] strategy = "MarkdownExportStrategy" -> MarkdownExport(gs)
      [] strategy = "XLSXExportStrategy" -> XLSXExport(gs, available)
      [] strategy = "XMLExportStrategy" -> XMLExport(gs)

\* (variant: every format listed under its bare name)
GetAvailableFormatsBareNames(available) ==
    [i \in 1..Len(Registry) |-> Registry[i].name]
\* get_available_formats
GetAvailableFormats(available) ==
    [i \in 1..Len(Registry) |->
        IF StrategyIsAvailable(Registry[i].strategy, available)
        THEN Registry[i].name
        ELSE Registry[i].name \o Marker]

\* format_name.split(" -")[0]
CleanName(format_name) ==
    LET At(i) == format_name[i] = " " /\ format_name[i + 1] = "-"
    IN  IF \E i \in 1..(Len(format_name) - 1) : At(i)
        THEN LET k == CHOOSE i \in 1..(Len(format_name) - 1) :
                          At(i) /\ \A j \in 1..(i - 1) : ~At(j)
             IN  SubSeq(format_name, 1, k - 1)
        ELSE format_name

Created(strategy) == [t |-> "ok", strategy |-> strategy]
CreateRaises == [t |-> "raise", exc |-> "ExportError"]

\* create_strategy
CreateStrategy(format_name, available) ==
    LET clean_name == CleanName(format_name)
    IN  IF ~(\E i \in 1..Len(Registry) : Registry[i].name = clean_name)
        THEN CreateRaises
        ELSE LET strategy == Registry[CHOOSE i \in 1..Len(Registry) :
                                          Registry[i].name = clean_name].strategy
             IN  IF ~StrategyIsAvailable(strategy, available)
                 THEN CreateRaises
                 ELSE Created(strategy)

\* the file system: a set of [path, content]; one entry per path
Directory == [fmt |-> "dir"]
FileAt(fs, path) == {f \in fs : f.path = path}
WriteFile(fs, path, write) ==
    IF write.t = "written"
    THEN (fs \ FileAt(fs, path)) \cup {[path |-> path, content |-> write.content]}
    ELSE fs

\* os.makedirs(games_dir) when it does not exist
MakeGamesDir(fs) ==
    IF FileAt(fs, "games") = {} THEN fs \cup {[path |-> "games", content |-> Directory]}
    ELSE fs

\* os.path.join(games_dir, f"{filename}{strategy.extension}")
ExportPath(filename, strategy) == "games/" \o filename \o Extension(strategy)

\* ExportManager.export_games: the outcome and the file system it leaves
ManagerExport(gs, format_name, filename, available, fs) ==
    IF gs = <<>> THEN [result |-> Raise("export_games", "ExportError"), files |-> fs]
    ELSE LET created == CreateStrategy(format_name, available)
         IN  IF created.t = "raise"
             THEN [result |-> Raise("export_games", "ExportError"), files |-> fs]
             ELSE LET filepath == ExportPath(filename, created.strategy)
                      exported == StrategyExport(created.strategy, gs, available)
                      after == WriteFile(MakeGamesDir(fs), filepath, exported.write)
                  IN  IF exported.t = "ok"
                      THEN [result |-> Return("export_games", filepath), files |-> after]
                      ELSE [result |-> Raise("export_games", "ExportError"), files |-> after]

-----------------------------------------------------------------------------
(* The records, collections and format names explored for the exporters *)

MaxExportGames == 2     \* most records in an exported collection

Enriched(g, review, rating) == [g EXCEPT !.ai_review = review, !.ai_rating = rating]

\* "A&B" on two platforms, no date, no genre, no review
gamePlain == Game(<<"A", "&", "B">>, <<PC, PS5>>, PyNone, <<>>)
\* a reviewed game
gameReviewed ==
    Enriched(Game(<<"D", "o", "o", "m">>, <<PC>>, PyStr(<<"2", "0", "2", "4", "-", "0", "2", "-", "1", "0">>), <<<<"A", "c", "t", "i", "o", "n">>, <<"F", "P", "S">>>>),
             PyStr(<<"o", "k">>), PyInt(7))
\* a game whose review came back as the empty text
gameEmptyReview == Enriched(Game(<<"<", "x", ">">>, <<NES>>, PyNone, <<<<"a", " ", "\"", "b", "\"">>>>), PyStr(<<>>), PyNone)
\* a game that got a rating and no review
gameRatingOnly == Enriched(Game(<<" ", "Y", "s", " ">>, <<SNES>>, PyNone, <<>>), PyNone, PyInt(7))
\* a title with an empty line in it
gameTwoParagraphs == Game(<<"A", "\n", " ", "\n", "B">>, <<PC>>, PyNone, <<<<"R", "P", "G">>>>)

ExportGameSet == {gamePlain, gameReviewed, gameEmptyReview, gameRatingOnly, gameTwoParagraphs}

ExportCollections == SeqsUpTo(ExportGameSet, MaxExportGames)

Strategies == {Registry[i].strategy : i \in 1..Len(Registry)}

FormatNames ==
    {Registry[i].name : i \in 1..Len(Registry)}
    \cup {Registry[i].name \o Marker : i \in 1..Len(Registry)}
    \cup {<<"C", "S", "V", " ", "-", " ", "f", "o", "o">>, <<"X", "M", "L", " ", "-">>, <<"c", "s", "v">>, <<"U", "N", "K", "N", "O", "W", "N">>, <<>>, <<"C", "S", "V", " ">>, <<" ", "-", " ", "N", "o", "n", " ", "d", "i", "s", "p", "o", "n", "i", "b", "i", "l", "e">>}

OldFile == [fmt |-> "old"]

ExportCalls ==
    {[fn |-> "export", strategy |-> st, gs |-> gs, path |-> "out"] :
         st \in Strategies, gs \in ExportCollections}
    \cup {[fn |-> "export_games", format_name |-> n, gs |-> gs,
           path |-> IF CreateStrategy(n, TRUE).t = "ok"
                    THEN ExportPath("f", CreateStrategy(n, TRUE).strategy) ELSE "out"] :
              n \in FormatNames, gs \in ExportCollections}
    \cup {[fn |-> "create_strategy", format_name |-> n, path |-> "out"] : n \in FormatNames}
    \cup {[fn |-> "get_available_formats", path |-> "out"]}

\* One call per behaviour: the arguments, whether openpyxl is installed, and
\* whether a file is already at the path the call would write.
InitExport ==
    /\ InitIdleButFiles
    /\ client = FALSE
    /\ openpyxl \in BOOLEAN
    /\ \E call \in ExportCalls : pure_in = call
    /\ files \in {NoFiles, {[path |-> pure_in.path, content |-> OldFile]}}
    /\ environ = KeysInPlace
    /\ config = ConfigInPlace
    /\ pure_out = NoRet

\* strategy.export(games, filepath) on a strategy object
ApplyStrategyExport ==
    /\ pure_in.fn = "export"
    /\ pure_out = NoRet
    /\ LET exported == StrategyExport(pure_in.strategy, pure_in.gs, openpyxl)
       IN  /\ files' = WriteFile(files, pure_in.path, exported.write)
           /\ pure_out' = IF exported.t = "ok" THEN Return("export", PyNone)
                          ELSE Raise("export", exported.exc)
    /\ UNCHANGED <<frameVars, client, ctlVars, ret, pure_in, svcVars, openpyxl, held, completed, cfgVars>>

\* ExportManager().export_games(games, format_name, "f")
ApplyManagerExport ==
    /\ pure_in.fn = "export_games"
    /\ pure_out = NoRet
    /\ LET done == ManagerExport(pure_in.gs, pure_in.format_name, "f", openpyxl, files)
       IN  /\ files' = done.files
           /\ pure_out' = done.result
    /\ UNCHANGED <<frameVars, client, ctlVars, ret, pure_in, svcVars, openpyxl, held, completed, cfgVars>>

\* ExportStrategyFactory.create_strategy(format_name)
ApplyCreateStrategy ==
    /\ pure_in.fn = "create_strategy"
    /\ pure_out = NoRet
    /\ LET created == CreateStrategy(pure_in.format_name, openpyxl)
       IN  pure_out' = IF created.t = "ok" THEN Return("create_strategy", created.strategy)
                       ELSE Raise("create_strategy", created.exc)
    /\ UNCHANGED <<frameVars, client, ctlVars, ret, pure_in, svcVars, expVars, held, completed, cfgVars>>

\* ExportStrategyFactory.get_available_formats()
ApplyGetAvailableFormats ==
    /\ pure_in.fn = "get_available_formats"
    /\ pure_out = NoRet
    /\ pure_out' = Return("get_available_formats", GetAvailableFormats(openpyxl))
    /\ UNCHANGED <<frameVars, client, ctlVars, ret, pure_in, svcVars, expVars, held, completed, cfgVars>>

NextExport ==
    ApplyStrategyExport \/ ApplyManagerExport \/ ApplyCreateStrategy
        \/ ApplyGetAvailableFormats

SpecExport == InitExport /\ [][NextExport]_vars

-----------------------------------------------------------------------------
(* Game.to_dict() applied to one record *)

RecordTitles == {<<"D", "o", "o", "m">>, <<>>}
RecordPlatforms == {<<>>, <<PC>>, <<PC, PS5>>}
RecordDates == {PyNone, PyStr(<<"2", "0", "2", "4", "-", "0", "2", "-", "1", "0">>)}
RecordGenres == {<<>>, <<<<"R", "P", "G">>, <<"F", "P", "S">>>>}
RecordReviews == {PyNone, PyStr(<<>>), PyStr(<<"o", "k">>)}
RecordRatings == {PyNone, PyInt(1), PyInt(7), PyInt(10)}

GameRecords ==
    {Enriched(Game(t, p, d, g), review, rating) :
         t \in RecordTitles, p \in RecordPlatforms, d \in RecordDates,
         g \in RecordGenres, review \in RecordReviews, rating \in RecordRatings}

InitGame ==
    /\ InitIdle
    /\ client = FALSE
    /\ openpyxl = FALSE
    /\ \E g \in GameRecords : pure_in = [fn |-> "to_dict", g |-> g]
    /\ pure_out = NoRet

\* game.to_dict()
ApplyToDict ==
    /\ pure_in.fn = "to_dict"
    /\ pure_out = NoRet
    /\ pure_out' = Return("to_dict", ToDict(pure_in.g))
    /\ UNCHANGED <<frameVars, client, ctlVars, ret, pure_in, svcVars, expVars, held,
                   completed, cfgVars>>

NextGame == ApplyToDict

SpecGame == InitGame /\ [][NextGame]_vars

-----------------------------------------------------------------------------
(* controllers/game_controller.py *)

\* the methods RAWGService defines
RAWGServiceMethods == {"__init__", "fetch_games", "_build_date_range", "_parse_game_data"}

\* (variant: enrichment whenever it is requested)
EnrichmentWantedIgnoringService(requested, available) == requested
\* `include_ai_reviews and self.ai_service.is_available()`
EnrichmentWanted(requested, available) == requested /\ available

\* search_games, up to the call of fetch_games
StartSearch ==
    /\ pc = "idle"
    /\ \E p \in SearchPeriods : \E f \in SearchFilters : \E ai \in BOOLEAN :
        /\ year' = p[1]
        /\ month' = p[2]
        /\ platform_filter' = f
        /\ include_ai_reviews' = ai
        /\ window' = BuildDateRange(p[1], p[2])
    /\ pc' = "fetch"
    /\ caller' = "search"
    /\ page' = 1
    /\ games' = <<>>
    /\ requests' = <<>>
    /\ upstream' = <<>>
    /\ calls' = <<>>
    /\ idx' = 0
    /\ ret' = NoRet
    /\ UNCHANGED <<random_range, client, ctlVars, pureVars, svcVars, expVars, held, completed, cfgVars>>

\* (variant: every iteration works on the first record)
LoopGameFirst(i) == 1
\* the position in games of the `game` that enumerate(games, 1) pairs with i
LoopGame(i) == i

\* one iteration of `for i, game in enumerate(games, 1)`
EnrichOne ==
    /\ pc = "enrich"
    /\ EnrichmentWanted(include_ai_reviews, client)
    /\ idx <= Len(games)
    /\ \E outcome \in SearchOutcomes(caller) :
        LET result == GenerateReview(client, outcome)
        IN  /\ games' = [games EXCEPT ![LoopGame(idx)].ai_review = result[1],
                                      ![LoopGame(idx)].ai_rating = result[2]]
            /\ calls' = Append(calls, [index |-> idx, game |-> games[idx],
                                       outcome |-> outcome, result |-> result])
    /\ sent' = GenerateReviewSends(client, games[idx])
    /\ idx' = idx + 1
    /\ UNCHANGED <<pc, caller, year, month, platform_filter, include_ai_reviews,
                   window, upstream, page, requests, random_range, client, ctlVars,
                   ret, pureVars, ctor, expVars, held, completed, cfgVars>>

\* `# Store results` and `return games`
StoreResults ==
    /\ pc = "enrich"
    /\ ~(EnrichmentWanted(include_ai_reviews, client) /\ idx <= Len(games))
    /\ last_results' = games
    /\ last_search_year' = PyInt(year)
    /\ last_search_month' = PyInt(month)
    /\ ret' = Return("search_games", games)
    /\ completed' = [t |-> "search", year |-> year, month |-> month, records |-> games]
    /\ pc' = "idle"
    /\ UNCHANGED <<caller, year, month, platform_filter, include_ai_reviews, window,
                   upstream, page, games, requests, idx, calls, random_range, client,
                   pureVars, svcVars, expVars, held, cfgVars>>

\* search_random_games: its first statement calls rawg_service.fetch_random_games
SearchRandom ==
    /\ pc = "idle"
    /\ \E lo \in RandomYears : \E hi \in RandomYears :
        /\ lo <= hi
        /\ random_range' = <<lo, hi>>
    /\ "fetch_random_games" \notin RAWGServiceMethods
    /\ ret' = Raise("search_random_games", "AttributeError")
    /\ requests' = <<>>
    /\ upstream' = <<>>
    /\ calls' = <<>>
    /\ games' = <<>>
    /\ UNCHANGED <<pc, caller, year, month, platform_filter, include_ai_reviews,
                   window, page, idx, client, ctlVars, pureVars, svcVars, expVars, held, completed, cfgVars>>

\* GameController(): the review service may or may not have a client
Init ==
    /\ InitIdle
    /\ client \in BOOLEAN
    /\ openpyxl = FALSE
    /\ pure_in = NoPure
    /\ pure_out = NoRet

Next == StartSearch \/ FetchPage \/ EnrichOne \/ StoreResults \/ SearchRandom

Spec == Init /\ [][Next]_vars

-----------------------------------------------------------------------------
(* controllers/game_controller.py: a session of searches, look-ups and exports *)

fallbackName == "games_results"

\* (variant: the fixed name whatever was searched)
AutomaticFilenameFixed(y, m) == fallbackName
\* get_automatic_filename
AutomaticFilename(y, m) ==
    IF y.t # "none" /\ m.t # "none"
    THEN "games_results_" \o ToString(y.v) \o "_" \o ToString(m.v)
    ELSE fallbackName

\* (variant: the stored list itself is handed out)
ListAlias(list) == [t |-> "list", alias |-> TRUE, v |-> list]
\* `self._last_results.copy()`: a new list object with the same elements
ListCopy(list) == [t |-> "list", alias |-> FALSE, v |-> list]

MaxHeldLen == 2     \* the caller stops adding to its list at this length

ReverseList(list) == [i \in 1..Len(list) |-> list[Len(list) + 1 - i]]

\* what a caller can do to a list it holds: add, remove or reorder elements
ListMutations(list) ==
    (IF list # <<>> /\ Len(list) < MaxHeldLen THEN {Append(list, list[1])} ELSE {})
    \cup (IF list # <<>> THEN {Tail(list)} ELSE {})
    \cup (IF Len(list) >= 2 THEN {ReverseList(list)} ELSE {})

SessionFilenames == {PyNone, PyStr("mine")}
SessionFormats == {nameCSV}
SessionCollections == {<<gamePlain>>}
SessionRandomRange == <<2023, 2024>>

\* search_games(year, month) without filter and without reviews, up to the
\* call of fetch_games
StartSessionSearch ==
    /\ pc = "idle"
    /\ \E p \in SearchPeriods :
        /\ year' = p[1]
        /\ month' = p[2]
        /\ window' = BuildDateRange(p[1], p[2])
    /\ platform_filter' = PyNone
    /\ include_ai_reviews' = FALSE
    /\ pc' = "fetch"
    /\ caller' = "search"
    /\ page' = 1
    /\ games' = <<>>
    /\ requests' = <<>>
    /\ upstream' = <<>>
    /\ calls' = <<>>
    /\ idx' = 0
    /\ ret' = NoRet
    /\ UNCHANGED <<random_range, client, ctlVars, pureVars, svcVars, expVars, held, completed, cfgVars>>

\* search_random_games(2023, 2024): its first statement calls
\* rawg_service.fetch_random_games
SessionSearchRandom ==
    /\ pc = "idle"
    /\ random_range' = SessionRandomRange
    /\ "fetch_random_games" \notin RAWGServiceMethods
    /\ ret' = Raise("search_random_games", "AttributeError")
    /\ requests' = <<>>
    /\ upstream' = <<>>
    /\ calls' = <<>>
    /\ games' = <<>>
    /\ UNCHANGED <<pc, caller, year, month, platform_filter, include_ai_reviews,
                   window, page, idx, client, ctlVars, pureVars, svcVars, expVars, held, completed, cfgVars>>

\* get_automatic_filename()
GetAutomaticFilename ==
    /\ pc = "idle"
    /\ ret' = Return("get_automatic_filename",
                     AutomaticFilename(last_search_year, last_search_month))
    /\ UNCHANGED <<frameVars, client, ctlVars, pureVars, svcVars, expVars, held, completed, cfgVars>>

\* export_games(games, format_name, filename)
ControllerExport ==
    /\ pc = "idle"
    /\ \E gs \in SessionCollections : \E n \in SessionFormats : \E given \in SessionFilenames :
        LET filename == IF given.t = "none"
                        THEN AutomaticFilename(last_search_year, last_search_month)
                        ELSE given.v
            done == ManagerExport(gs, n, filename, openpyxl, files)
        IN  /\ pure_in' = [fn |-> "controller.export_games", gs |-> gs,
                           format_name |-> n, filename |-> given]
            /\ files' = done.files
            /\ ret' = done.result
    /\ UNCHANGED <<frameVars, client, ctlVars, pure_out, svcVars, openpyxl, held, completed, cfgVars>>

\* get_last_results(); the caller keeps the list it already had or the new one
GetLastResults ==
    /\ pc = "idle"
    /\ ret' = Return("get_last_results", last_results)
    /\ held' \in {ListCopy(last_results)} \cup (IF held = NoHeld THEN {} ELSE {held})
    /\ UNCHANGED <<frameVars, client, ctlVars, pureVars, svcVars, expVars, completed, cfgVars>>

\* the caller adds, removes or reorders elements of the list it holds; the
\* controller's list changes with it only if it is the same object
MutateHeldList ==
    /\ pc = "idle"
    /\ held # NoHeld
    /\ \E changed \in ListMutations(held.v) :
        /\ held' = [held EXCEPT !.v = changed]
        /\ last_results' = IF held.alias THEN changed ELSE last_results
    /\ UNCHANGED <<frameVars, client, last_search_year, last_search_month, ret,
                   pureVars, svcVars, expVars, completed, cfgVars>>

\* GameController() without a review-service key, in an empty working directory
InitSession ==
    /\ InitIdle
    /\ client = FALSE
    /\ openpyxl = FALSE
    /\ pure_in = NoPure
    /\ pure_out = NoRet

NextSession ==
    StartSessionSearch \/ FetchPage \/ StoreResults \/ SessionSearchRandom
        \/ GetAutomaticFilename \/ ControllerExport \/ GetLastResults
        \/ MutateHeldList

SpecSession == InitSession /\ [][NextSession]_vars

-----------------------------------------------------------------------------
(* controllers/game_controller.py: searches with reviews, then look-ups and exports *)

PipelinePeriod == <<2024, 2>>

\* search_games(2024, 2, None, include_ai_reviews), up to the call of fetch_games
StartPipelineSearch ==
    /\ pc = "idle"
    /\ year' = PipelinePeriod[1]
    /\ month' = PipelinePeriod[2]
    /\ window' = BuildDateRange(PipelinePeriod[1], PipelinePeriod[2])
    /\ platform_filter' = PyNone
    /\ include_ai_reviews' \in BOOLEAN
    /\ pc' = "fetch"
    /\ caller' = "pipeline"
    /\ page' = 1
    /\ games' = <<>>
    /\ requests' = <<>>
    /\ upstream' = <<>>
    /\ calls' = <<>>
    /\ idx' = 0
    /\ ret' = NoRet
    /\ UNCHANGED <<random_range, client, ctlVars, pureVars, svcVars, expVars, held, completed, cfgVars>>

\* export_games(games, format_name) with the list the last search returned and
\* a name taken from get_available_formats(); the session exports once, into
\* the empty working directory
ExportResults ==
    /\ pc = "idle"
    /\ files = NoFiles
    /\ \E k \in 1..Len(GetAvailableFormats(openpyxl)) :
        LET format_name == GetAvailableFormats(openpyxl)[k]
            filename == AutomaticFilename(last_search_year, last_search_month)
            done == ManagerExport(last_results, format_name, filename, openpyxl, files)
        IN  /\ pure_in' = [fn |-> "controller.export_games", gs |-> last_results,
                           format_name |-> format_name, filename |-> PyNone]
            /\ files' = done.files
            /\ ret' = done.result
    /\ UNCHANGED <<frameVars, client, ctlVars, pure_out, svcVars, openpyxl, held, completed, cfgVars>>

\* GameController() with a review-service key and openpyxl installed
InitPipeline ==
    /\ InitIdle
    /\ client = TRUE
    /\ openpyxl = TRUE
    /\ pure_in = NoPure
    /\ pure_out = NoRet

NextPipeline ==
    StartPipelineSearch \/ FetchPage \/ EnrichOne \/ StoreResults \/ SessionSearchRandom
        \/ GetAutomaticFilename \/ ExportResults \/ GetLastResults

SpecPipeline == InitPipeline /\ [][NextPipeline]_vars

-----------------------------------------------------------------------------
(* Config() and GameController() called again and again, in a changing environment *)

MaxConfigAttempts == 3     \* construction attempts explored

RawgKeys == {PyNone, PyStr(<<>>), PyStr(<<"k", "1">>), PyStr(<<"k", "2">>)}
OpenAIKeys == {PyNone, PyStr(<<"o", "1">>)}
DotenvEntries == {PyNone, PyStr(<<"k", "f">>)}
Environments ==
    {Environment(r, o, f) : r \in RawgKeys, o \in OpenAIKeys, f \in DotenvEntries}

Attempted(cfg) == [cfg EXCEPT !.attempts = cfg.attempts + 1]

\* Config()
NewConfig ==
    /\ config.attempts < MaxConfigAttempts
    /\ LET done == ConstructConfig(config, environ)
       IN  /\ config' = Attempted(done.config)
           /\ environ' = done.environ
           /\ ret' = IF done.t = "ok" THEN Return("Config", done.config.instance)
                     ELSE Raise("Config", "ConfigError")
    /\ UNCHANGED <<frameVars, client, ctlVars, pureVars, svcVars, expVars, held, completed>>

\* GameController(): Config() first, then the services with the keys it exposes
NewGameController ==
    /\ config.attempts < MaxConfigAttempts
    /\ LET done == ConstructConfig(config, environ)
       IN  /\ config' = Attempted(done.config)
           /\ environ' = done.environ
           /\ ret' = IF done.t = "ok"
                     THEN Return("GameController",
                                 [config |-> done.config.instance,
                                  rawg_api_key |-> done.config.rawg_api_key,
                                  openai_api_key |-> done.config.openai_api_key])
                     ELSE Raise("GameController", "ConfigError")
    /\ UNCHANGED <<frameVars, client, ctlVars, pureVars, svcVars, expVars, held, completed>>

\* the environment changes between two constructions
ChangeEnvironment ==
    /\ \E env \in Environments :
        /\ env.dotenv = environ.dotenv
        /\ env # environ
        /\ environ' = env
    /\ UNCHANGED <<frameVars, client, ctlVars, ret, pureVars, svcVars, expVars, held,
                   completed, config>>

\* a fresh process: the class as defined, any environment
InitConfig ==
    /\ InitIdleButFiles
    /\ files = NoFiles
    /\ client = FALSE
    /\ openpyxl = FALSE
    /\ pure_in = NoPure
    /\ pure_out = NoRet
    /\ environ \in Environments
    /\ config = ConfigClass

NextConfig == NewConfig \/ NewGameController \/ ChangeEnvironment

SpecConfig == InitConfig /\ [][NextConfig]_vars

-----------------------------------------------------------------------------
(* RAWGService._parse_game_data on one raw item (SpecNormalize) *)

\* what the catalog may put in the released, platforms and genres fields
RawReleased == {Absent, PyNone, PyStr("2024-02-10")}
RawPlatforms == {Absent, PyNone, PyStr(PC), PyInt(3), PyList(<<>>), PyList(<<NES>>)}
RawGenres ==
    {Absent, PyNone, PyStr(<<>>), PyStr(<<"R", "P", "G">>), PyInt(3),
     PyList(<<>>), PyList(<<"Action">>)}

NormalizeItems ==
    {RawItem(name, released, platforms, genres) :
        name \in {"Doom", "Zelda"}, released \in RawReleased,
        platforms \in RawPlatforms, genres \in RawGenres}

InitNormalize ==
    /\ InitIdle
    /\ client = FALSE
    /\ openpyxl = FALSE
    /\ \E game_data \in NormalizeItems :
           pure_in = [fn |-> "_parse_game_data", game_data |-> game_data]
    /\ pure_out = NoRet

ApplyParseGameData ==
    /\ pure_in.fn = "_parse_game_data"
    /\ pure_out = NoRet
    /\ LET parsed == ParseGameData(pure_in.game_data)
       IN  pure_out' = IF parsed.t = "raise"
                       THEN Raise("_parse_game_data", parsed.exc)
                       ELSE Return("_parse_game_data", parsed.v)
    /\ UNCHANGED <<frameVars, client, ctlVars, ret, pure_in, svcVars, expVars, held, completed, cfgVars>>

NextNormalize == ApplyParseGameData

SpecNormalize == InitNormalize /\ [][NextNormalize]_vars

-----------------------------------------------------------------------------
(* Properties of RAWGService.fetch_games (SpecFetch) *)

\* the raw items a page response carries
RawOfPage(d) == IF d.t = "ok" /\ d.results.t = "list" THEN d.results.v ELSE <<>>

HasRawItems(d) == Len(RawOfPage(d)) >= 1
SignalsNext(d) == d.t = "ok" /\ d.next.t = "str" /\ Len(d.next.v) >= 1
EveryPageGoesOn(log) == \A p \in 1..Len(log) : HasRawItems(log[p]) /\ SignalsNext(log[p])

\* C1: whatever the catalog answers, even a further page on every response, one
\* call of fetch_games issues at most 4 page requests, and after the 4th request
\* the call is over.
C1_AtMostFourPageRequests ==
    /\ Len(requests) <= 4
    /\ Len(requests) = 4 => pc # "fetch"
    /\ pc = "fetch" => page <= 4

C1_FourPagesAllWithNext ==
    /\ Len(requests) = 4
    /\ EveryPageGoesOn(upstream)
    /\ ret.kind = "return"
    /\ ret.op = "fetch_games"

\* C2: pages are requested in ascending order from page 1, and page p+1 is
\* requested exactly when page p came back with at least one raw item, a
\* non-empty 'next' and p < 4; a page emptied by the platform filter does not
\* stop the pagination.
C2_NextPageIffItemsAndNext ==
    /\ requests = [i \in 1..Len(requests) |-> i]
    /\ Len(upstream) = Len(requests)
    /\ pc = "fetch" => page = Len(requests) + 1
    /\ \A p \in 1..Len(requests) :
           (p < Len(requests) \/ pc = "fetch")
               <=> (HasRawItems(upstream[p]) /\ SignalsNext(upstream[p]) /\ p < 4)

C2_FilteredOutPageThenNextPage ==
    /\ Len(requests) >= 2
    /\ HasRawItems(upstream[1])
    /\ ~FilterIsFalsy(platform_filter)
    /\ \A i \in 1..Len(RawOfPage(upstream[1])) :
           ~MatchesPlatformFilter(ParseGameData(RawOfPage(upstream[1])[i]).v,
                                  platform_filter)
    /\ requests[2] = 2

RECURSIVE AllRaw(_)
AllRaw(log) == IF log = <<>> THEN <<>> ELSE RawOfPage(log[1]) \o AllRaw(Tail(log))

\* the normalized items of the requested pages that satisfy the filter, in
\* upstream order
KeptInUpstreamOrder(log, f) ==
    LET raw == AllRaw(log)
        normalized == [i \in 1..Len(raw) |-> ParseGameData(raw[i]).v]
        Keeps(g) == MatchesPlatformFilter(g, f)
    IN  SelectSeq(normalized, Keeps)

\* C4: when every page request succeeds, fetch_games returns exactly the
\* normalized items of the requested pages that satisfy the platform filter, in
\* upstream order: nothing dropped, nothing extra, no duplicate, no reordering.
C4_ReturnsFilteredItemsInOrder ==
    /\ pc = "fetch" => games = KeptInUpstreamOrder(upstream, platform_filter)
    /\ (ret.kind = "return" /\ ret.op = "fetch_games")
           => ret.value = KeptInUpstreamOrder(upstream, platform_filter)

C4_TwoPagesSomeKeptSomeDropped ==
    /\ ret.kind = "return"
    /\ ret.op = "fetch_games"
    /\ Len(requests) >= 2
    /\ Len(ret.value) >= 2
    /\ Len(ret.value) < Len(AllRaw(upstream))
    /\ HasRawItems(upstream[1])
    /\ ~MatchesPlatformFilter(ParseGameData(RawOfPage(upstream[1])[1]).v, platform_filter)

\* C5: if the request for some page k fails, fetch_games raises APIServiceError
\* and returns no records, whatever pages 1..k-1 had yielded.
C5_RequestErrorAbortsFetch ==
    \A k \in 1..Len(upstream) :
        upstream[k] = RequestError
            => /\ k = Len(upstream)
               /\ pc = "idle"
               /\ ret = Raise("fetch_games", "APIServiceError")

C5_ErrorAfterRecordsWereKept ==
    /\ Len(upstream) >= 2
    /\ upstream[Len(upstream)] = RequestError
    /\ KeptInUpstreamOrder(upstream, platform_filter) # <<>>
    /\ ret.kind = "raise"

-----------------------------------------------------------------------------
(* Properties of Game.matches_platform_filter (SpecFilter) *)

\* two characters that are the same up to letter case
SameLetter(a, b) ==
    a = b \/ \E i \in 1..26 : {a, b} = {UpperChars[i], LowerChars[i]}

\* tok occurs in name at offset off, ignoring case
OccursAt(tok, name, off) ==
    /\ off + Len(tok) <= Len(name)
    /\ \A k \in 1..Len(tok) : SameLetter(name[off + k], tok[k])

SomePlatformHasSomeToken(platforms, tokens) ==
    \E i \in 1..Len(platforms) : \E j \in 1..Len(tokens) :
        \E off \in 0..Len(platforms[i]) : OccursAt(tokens[j], platforms[i], off)

\* C3: matches_platform_filter(F) is true when F is null or empty, and otherwise
\* true exactly when some platform name of the record contains some token of F
\* as a case-insensitive substring.
C3_FilterMatchesSubstringIgnoringCase ==
    pure_out.op = "matches_platform_filter"
        => pure_out.value =
               IF pure_in.f.t = "none" THEN TRUE
               ELSE IF Len(pure_in.f.v) = 0 THEN TRUE
               ELSE SomePlatformHasSomeToken(pure_in.game.platforms, pure_in.f.v)

C3_MixedCaseTokenInsideName ==
    /\ pure_out.op = "matches_platform_filter"
    /\ pure_in.f.t = "list"
    /\ pure_in.f.v = <<<<"x">>, <<"N", "e", "s">>>>
    /\ pure_in.game.platforms = <<PS5, SNES>>
    /\ pure_out.value = TRUE

-----------------------------------------------------------------------------
(* Properties of the date window (SpecDate) *)

DateText(y, m, d) == ToString(y) \o "-" \o Pad2(m) \o "-" \o Pad2(d)

FirstDayOfNextMonth(y, m) ==
    IF m = 12 THEN DateText(y + 1, 1, 1) ELSE DateText(y, m + 1, 1)

DaysInMonth == <<31, 28, 31, 30, 31, 30, 31, 31, 30, 31, 30, 31>>
LastDayOfMonth(y, m) ==
    IF m = 2 /\ y % 4 = 0 /\ (y % 100 # 0 \/ y % 400 = 0) THEN 29 ELSE DaysInMonth[m]

\* C6 as stated: for every year and month the window of the fetch runs from the
\* first day of the month to the first day of the following month, December
\* rolling into (year+1)-01-01.
C6_WindowEndsOnFirstOfNextMonth ==
    pure_out.kind = "return"
        => pure_out.value = <<DateText(pure_in.year, pure_in.month, 1),
                              FirstDayOfNextMonth(pure_in.year, pure_in.month)>>

\* C6 as amended: the window of RAWGService.fetch_games runs from the first day
\* of the month to the last day of that same month (for December year-12-31);
\* only the window of GamesDB.fetch_games in main.py ends on the first day of
\* the following month, rolling December into (year+1)-01-01; neither ever
\* names a month 13.
C6_WindowEndsOnLastDayOfMonth ==
    /\ pure_out.op = "_build_date_range"
           => pure_out.value =
                  <<DateText(pure_in.year, pure_in.month, 1),
                    DateText(pure_in.year, pure_in.month,
                             LastDayOfMonth(pure_in.year, pure_in.month))>>
    /\ pure_out.op = "GamesDB.fetch_games"
           => pure_out.value = <<DateText(pure_in.year, pure_in.month, 1),
                                 FirstDayOfNextMonth(pure_in.year, pure_in.month)>>
    /\ pure_out.kind = "return"
           => pure_out.value[2] # ToString(pure_in.year) \o "-13-01"

C6_DecemberWindow ==
    /\ pure_out.op = "_build_date_range"
    /\ pure_in.month = 12
    /\ pure_out.value = <<"2023-12-01", "2023-12-31">>

-----------------------------------------------------------------------------
(* Properties of GameController (Spec) *)

SearchReturned == ret.kind = "return" /\ ret.op = "search_games"

\* C7: for min_year <= max_year, search_random_games returns (records, year,
\* month) with min_year <= year <= max_year and 1 <= month <= 12, and afterwards
\* the stored last results and last (year, month) are those values.
C7_RandomSearchReturnsPeriodInRange ==
    ret.op = "search_random_games"
        => /\ ret.kind = "return"
           /\ random_range[1] <= ret.value[2]
           /\ ret.value[2] <= random_range[2]
           /\ ret.value[3] \in 1..12
           /\ last_results = ret.value[1]
           /\ last_search_year = PyInt(ret.value[2])
           /\ last_search_month = PyInt(ret.value[3])

AbsentOrOneToTen(rating) ==
    rating.t = "none" \/ (rating.t = "int" /\ rating.v >= 1 /\ rating.v <= 10)

\* replies whose rating, read by the structured or by the legacy path, is 15
RepliesWithRatingFifteen == {Replies(contentJson15), Replies(contentLegacy15)}

\* C8: every record's ai_rating is absent or an integer in 1..10; a parsed
\* rating outside [1,10] becomes absent (it is not clamped) and the review text
\* parsed with it is kept.
C8_RatingAbsentOrInRange ==
    /\ \A i \in 1..Len(games) : AbsentOrOneToTen(games[i].ai_rating)
    /\ \A i \in 1..Len(last_results) : AbsentOrOneToTen(last_results[i].ai_rating)
    /\ \A i \in 1..Len(calls) :
           /\ AbsentOrOneToTen(calls[i].result[2])
           /\ calls[i].outcome \in RepliesWithRatingFifteen
                  => calls[i].result = <<PyStr(<<"o", "k">>), PyNone>>

C8_OutOfRangeRatingsStored ==
    /\ SearchReturned
    /\ Len(calls) = 2
    /\ calls[1].outcome = Replies(contentJson15)
    /\ calls[2].outcome = Replies(contentLegacy15)
    /\ \A i \in 1..2 : /\ last_results[i].ai_review = PyStr(<<"o", "k">>)
                       /\ last_results[i].ai_rating = PyNone

IsMalformedReply(outcome) == outcome.t = "reply" /\ outcome.content.json.t = "malformed"

\* C9 as stated: an enrichment call that throws, or whose response is malformed
\* JSON, yields (null, null) for that record, nothing is raised to the caller of
\* the search, and the next record is still attempted.
C9_ThrowOrMalformedYieldsNullPair ==
    /\ \A i \in 1..Len(calls) :
           (calls[i].outcome = Throws \/ IsMalformedReply(calls[i].outcome))
               => calls[i].result = <<PyNone, PyNone>>
    /\ calls # <<>> => ret.kind # "raise"
    /\ SearchReturned /\ calls # <<>> => Len(calls) = Len(ret.value)

\* a line of text: not blank, not only digits, not a VOTO: line
IsTextLine(line) ==
    /\ Strip(line) # <<>>
    /\ ~AllDigits(Strip(line))
    /\ ~StartsWith(StrUpper(line), VOTO)

\* a VOTO: line whose first two digit characters are not all decimal digits
IsUnreadableVotoLine(line) ==
    /\ StartsWith(StrUpper(line), VOTO)
    /\ \E k \in 1..Len(line) :
           /\ line[k] = Sup2
           /\ Cardinality({j \in 1..(k - 1) : IsDigit(line[j])}) <= 1

\* C9 as amended: a call that throws yields (null, null); a malformed-JSON
\* response raises nothing either but is read again by the legacy line parser:
\* an empty reply, and a reply with a VOTO: line whose leading digit characters
\* int() cannot read, yield (null, null); any other reply with a line of text
\* (not only digits, not a VOTO: line) gives the record a non-null review; in
\* every case the next record is still attempted.
C9_ThrowYieldsNullPairMalformedIsReparsed ==
    /\ \A i \in 1..Len(calls) :
           /\ calls[i].outcome = Throws => calls[i].result = <<PyNone, PyNone>>
           /\ IsMalformedReply(calls[i].outcome)
                  => LET lines == calls[i].outcome.content.lines
                         unreadable == \E k \in 1..Len(lines) :
                                           IsUnreadableVotoLine(lines[k])
                     IN  /\ lines = <<>> => calls[i].result = <<PyNone, PyNone>>
                         /\ unreadable => calls[i].result = <<PyNone, PyNone>>
                         /\ (~unreadable /\ \E k \in 1..Len(lines) : IsTextLine(lines[k]))
                                => calls[i].result[1].t = "str"
    /\ calls # <<>> => ret.kind # "raise"
    /\ SearchReturned /\ calls # <<>> => Len(calls) = Len(ret.value)

C9_NextRecordAfterThrowAndMalformed ==
    /\ SearchReturned
    /\ Len(calls) = 2
    /\ calls[1].outcome = Throws
    /\ calls[2].outcome = Replies(contentBroken)
    /\ ret.value[1].ai_review = PyNone
    /\ ret.value[2].ai_review = PyStr(<<"{", "o", "k">>)

\* the records fetch_games handed to search_games
Fetched == KeptInUpstreamOrder(upstream, platform_filter)

\* C10: when enrichment is requested and the service is available,
\* generate_review is called exactly once per fetched record, in sequence
\* order, before the result set is stored or returned, and the i-th record gets
\* the result of the i-th call; otherwise it is not called at all and every
\* returned record has absent review and rating.
C10_OneReviewCallPerRecordInOrder ==
    /\ \A i \in 1..Len(calls) : calls[i].index = i /\ calls[i].game = Fetched[i]
    /\ caller = "search" /\ pc \in {"fetch", "enrich"} => ret.kind = "none"
    /\ SearchReturned
           => /\ last_results = ret.value
              /\ Len(ret.value) = Len(Fetched)
              /\ IF include_ai_reviews /\ client
                 THEN /\ Len(calls) = Len(Fetched)
                      /\ \A i \in 1..Len(Fetched) :
                             ret.value[i] =
                                 [Fetched[i] EXCEPT !.ai_review = calls[i].result[1],
                                                    !.ai_rating = calls[i].result[2]]
                 ELSE /\ calls = <<>>
                      /\ \A i \in 1..Len(ret.value) :
                             /\ ret.value[i].ai_review = PyNone
                             /\ ret.value[i].ai_rating = PyNone

C10_TwoRecordsTwoDifferentResults ==
    /\ SearchReturned
    /\ include_ai_reviews
    /\ client
    /\ Len(ret.value) = 2
    /\ ret.value[1].ai_rating = PyInt(7)
    /\ ret.value[2].ai_rating = PyNone
    /\ ret.value[1].title # ret.value[2].title

-----------------------------------------------------------------------------
(* Properties of OpenAIReviewService (SpecReview, SpecParse) *)

KeySupplied(k) == k.t = "str" /\ Len(k.v) >= 1

\* C11 as stated: is_available() is true if and only if a key was supplied to
\* the constructor and the client was constructed; with no key supplied to the
\* constructor the service is unavailable; an unavailable service's
\* generate_review returns (null, null) without any network call.
C11_AvailableIffConstructorKey ==
    ctor # NoCtor
        => /\ ret.op = "is_available"
                  => (ret.value <=> (KeySupplied(ctor.key_arg) /\ ctor.sdk /\ ctor.ctor_ok))
           /\ ~KeySupplied(ctor.key_arg) => ~client
           /\ (ret.op = "generate_review" /\ ~client)
                  => (ret.value = <<PyNone, PyNone>> /\ sent = <<>>)

\* C11 as amended: is_available() is true if and only if a key was supplied to
\* the constructor or, failing that, is set in the OPENAI_API_KEY environment
\* variable, the openai package is installed and the client was constructed;
\* with a key in neither place the service is unavailable; an unavailable
\* service's generate_review returns (null, null) without any network call.
C11_AvailableIffKeyFromArgumentOrEnvironment ==
    ctor # NoCtor
        => /\ client <=> ((KeySupplied(ctor.key_arg) \/ KeySupplied(ctor.env_key))
                             /\ ctor.sdk /\ ctor.ctor_ok)
           /\ ret.op = "is_available" => ret.value = client
           /\ (~KeySupplied(ctor.key_arg) /\ ~KeySupplied(ctor.env_key)) => ~client
           /\ (ret.op = "generate_review" /\ ~client)
                  => (ret.value = <<PyNone, PyNone>> /\ sent = <<>>)
           /\ (ret.op = "generate_review" /\ client) => Len(sent) = 1

C11_AvailableByEnvironmentKeyOnly ==
    /\ ctor # NoCtor
    /\ ctor.key_arg = PyNone
    /\ KeySupplied(ctor.env_key)
    /\ ret = Return("is_available", TRUE)

\* C12: parsing is an ordered two-step chain: the structured parse is attempted
\* first; when it succeeds its result is returned and the legacy line parse is
\* not used; the legacy parse is used only when the structured parse fails;
\* and the parser never raises.
C12_StructuredThenLegacyNeverRaises ==
    pure_out.op = "_parse_json_response"
        => LET structured == StructuredParse(pure_in.content)
           IN  /\ pure_out.kind = "return"
               /\ pure_out.attempts[1] = "structured"
               /\ structured.t = "ok"
                      => (pure_out.attempts = <<"structured">> /\ pure_out.value = structured.v)
               /\ Len(pure_out.attempts) = 2
                      => (pure_out.attempts[2] = "legacy" /\ structured.t # "ok")

-----------------------------------------------------------------------------
(* Properties of the exporters (SpecExport) *)

IsExportCall == pure_in.fn \in {"export", "export_games"}

\* C13: for every export strategy and for ExportManager.export_games, the export
\* of an empty collection raises ExportError and leaves the file system as it
\* was: no file is created and no existing file is overwritten.
C13_EmptyExportRaisesAndWritesNothing ==
    [][(IsExportCall /\ pure_in.gs = <<>>)
           => /\ files' = files
              /\ pure_out'.kind = "raise"
              /\ pure_out'.exc = "ExportError"]_vars

C13_EmptyExportLeftOldFile ==
    /\ pure_in.fn = "export"
    /\ pure_in.strategy = "CSVExportStrategy"
    /\ pure_in.gs = <<>>
    /\ pure_out = Raise("export", "ExportError")
    /\ files = {[path |-> pure_in.path, content |-> OldFile]}

\* the file the call was to write
WrittenFile == (CHOOSE f \in files : f.path = pure_in.path).content

HasReview(g) == g.ai_review.t # "none"
AnyReview(gs) == \E i \in 1..Len(gs) : HasReview(gs[i])

ReviewColumns == {"AI Review", "AI Rating"}
ColumnsOf(header) == {header[j] : j \in 1..Len(header)}

\* C14: for every non-empty collection and every (available) format, the
\* export produces an output; if no record has a review the output has no
\* review/rating columns or elements; if at least one record, at any position,
\* has one, the output has them for every record, in XML with "N/A" for the
\* records without a review.
C14_ReviewColumnsForAllOrNone ==
    (/\ pure_in.fn = "export"
     /\ pure_out # NoRet
     /\ pure_in.gs # <<>>
     /\ StrategyIsAvailable(pure_in.strategy, openpyxl))
        => /\ pure_out.kind = "return"
           /\ FileAt(files, pure_in.path) # {}
           /\ IF WrittenFile.fmt = "xml"
              THEN LET doc == ReadXml(WrittenFile.text)
                   IN  /\ Len(doc.games) = Len(pure_in.gs)
                       /\ \A i \in 1..Len(doc.games) :
                              /\ HasChild(doc.games[i], "ai_review") <=> AnyReview(pure_in.gs)
                              /\ HasChild(doc.games[i], "ai_rating") <=> AnyReview(pure_in.gs)
                              /\ (AnyReview(pure_in.gs) /\ ~HasReview(pure_in.gs[i]))
                                     => FindText(doc.games[i], "ai_review") = NA
              ELSE /\ AnyReview(pure_in.gs) => ReviewColumns \subseteq ColumnsOf(WrittenFile.header)
                   /\ ~AnyReview(pure_in.gs) => ReviewColumns \cap ColumnsOf(WrittenFile.header) = {}
                   /\ Len(WrittenFile.rows) = Len(pure_in.gs)
                   /\ \A i \in 1..Len(WrittenFile.rows) :
                          Len(WrittenFile.rows[i]) = Len(WrittenFile.header)

\* C14 (amended): a collection without any review is exported without
\* review/rating columns or elements in every format. In XML, as soon as one
\* record, at any position, has a review, every game element has ai_review and
\* ai_rating, with "N/A" as the review of a record without one. In CSV,
\* Markdown and XLSX the column headings are those of the first record alone:
\* the review/rating headings are there iff the first record has a review, a
\* collection whose records all have one gets them in every row, and a mixed
\* collection is not reconciled (CSV raises ValueError for a review the first
\* record lacks, XLSX raises KeyError for a review a later record lacks).
C14_ColumnsOfFirstRecordElementsForAll ==
    (/\ pure_in.fn = "export"
     /\ pure_out # NoRet
     /\ pure_in.gs # <<>>
     /\ StrategyIsAvailable(pure_in.strategy, openpyxl))
        => LET gs == pure_in.gs
               uniform == \A i \in 1..Len(gs) : HasReview(gs[i]) <=> HasReview(gs[1])
               first == HasReview(gs[1])
               later == \E i \in 2..Len(gs) : HasReview(gs[i])
               lacking == \E i \in 2..Len(gs) : ~HasReview(gs[i])
           IN  IF pure_in.strategy = "XMLExportStrategy"
               THEN /\ pure_out.kind = "return"
                    /\ LET doc == ReadXml(WrittenFile.text)
                       IN  /\ Len(doc.games) = Len(gs)
                           /\ \A i \in 1..Len(doc.games) :
                                  /\ HasChild(doc.games[i], "ai_review") <=> AnyReview(gs)
                                  /\ HasChild(doc.games[i], "ai_rating") <=> AnyReview(gs)
                                  /\ (AnyReview(gs) /\ ~HasReview(gs[i]))
                                         => FindText(doc.games[i], "ai_review") = NA
               ELSE /\ uniform => pure_out.kind = "return"
                    /\ pure_out.kind = "return" =>
                           /\ IF first
                              THEN ReviewColumns \subseteq ColumnsOf(WrittenFile.header)
                              ELSE ReviewColumns \cap ColumnsOf(WrittenFile.header) = {}
                           /\ Len(WrittenFile.rows) = Len(gs)
                           /\ uniform => \A i \in 1..Len(gs) :
                                             Len(WrittenFile.rows[i]) = Len(WrittenFile.header)
                    /\ (pure_in.strategy = "CSVExportStrategy" /\ ~first /\ later)
                           => pure_out = Raise("export", "ValueError")
                    /\ (pure_in.strategy = "XLSXExportStrategy" /\ first /\ lacking)
                           => pure_out = Raise("export", "KeyError")

C14_ReviewOnlyInSecondRecord ==
    /\ pure_in.fn = "export"
    /\ pure_in.strategy = "CSVExportStrategy"
    /\ pure_in.gs = <<gamePlain, gameReviewed>>
    /\ pure_out = Raise("export", "ValueError")
    /\ ReviewColumns \cap ColumnsOf(WrittenFile.header) = {}

\* a record whose title, platform and genre texts are each on one line
OnOneLine(text) == \A i \in 1..Len(text) : text[i] # "\n"
IsWellFormed(g) ==
    /\ OnOneLine(g.title)
    /\ \A i \in 1..Len(g.platforms) : OnOneLine(g.platforms[i])
    /\ \A i \in 1..Len(g.genres) : OnOneLine(g.genres[i])

\* the texts joined by ", "
RECURSIVE JoinedByCommaSpace(_)
JoinedByCommaSpace(texts) ==
    IF texts = <<>> THEN <<>>
    ELSE texts[1] \o (IF Len(texts) > 1 THEN <<",", " ">> ELSE <<>>)
         \o JoinedByCommaSpace(Tail(texts))

\* C15: exporting N >= 1 well-formed records to XML and parsing the file again
\* gives exactly N game elements, in input order, whose title, platforms and
\* genres texts are the record's title, its platforms joined by ", " and its
\* genres joined by ", " (an empty text for none); total_games reads N and
\* includes_ai_reviews reads whether some record has a non-null review.
C15_XmlRoundTrip ==
    (/\ IsExportCall
     /\ pure_out.kind = "return"
     /\ WrittenFile.fmt = "xml"
     /\ \A i \in 1..Len(pure_in.gs) : IsWellFormed(pure_in.gs[i]))
        => LET doc == ReadXml(WrittenFile.text)
               N == Len(pure_in.gs)
           IN  /\ Len(doc.games) = N
               /\ \A i \in 1..N :
                      /\ FindText(doc.games[i], "title") = pure_in.gs[i].title
                      /\ FindText(doc.games[i], "platforms")
                             = JoinedByCommaSpace(pure_in.gs[i].platforms)
                      /\ FindText(doc.games[i], "genres")
                             = JoinedByCommaSpace(pure_in.gs[i].genres)
               /\ doc.total_games = StrOfNat(N)
               /\ doc.includes_ai_reviews
                      = (IF AnyReview(pure_in.gs) THEN <<"t", "r", "u", "e">>
                         ELSE <<"f", "a", "l", "s", "e">>)

C15_TwoRecordsWithMarkupCharacters ==
    /\ pure_in.fn = "export"
    /\ pure_in.strategy = "XMLExportStrategy"
    /\ pure_in.gs = <<gameEmptyReview, gamePlain>>
    /\ pure_out = Return("export", PyNone)
    /\ Len(ReadXml(WrittenFile.text).games) = 2

\* C16: create_strategy("XLSX (Excel) - Non disponibile") fails with ExportError
\* whether or not openpyxl is installed.
C16_MarkedXlsxNameAlwaysFails ==
    (/\ pure_in.fn = "create_strategy"
     /\ pure_in.format_name = nameXLSX \o Marker
     /\ pure_out # NoRet)
        => pure_out = Raise("create_strategy", "ExportError")

EndsWith(text, suffix) ==
    /\ Len(text) >= Len(suffix)
    /\ SubSeq(text, Len(text) - Len(suffix) + 1, Len(text)) = suffix

\* the name without the unavailability marker at its end
WithoutMarker(name) ==
    IF EndsWith(name, Marker) THEN SubSeq(name, 1, Len(name) - Len(Marker)) ELSE name

RegisteredAs(name) ==
    CASE name = <<"C", "S", "V">> -> "CSVExportStrategy"
      [] name = <<"M", "a", "r", "k", "d", "o", "w", "n">> -> "MarkdownExportStrategy"
      [] name = <<"X", "L", "S", "X", " ", "(", "E", "x", "c", "e", "l", ")">>
             -> "XLSXExportStrategy"
      [] name = <<"X", "M", "L">> -> "XMLExportStrategy"
      [] OTHER -> "none"

\* C17: create_strategy(name) strips the unavailability marker from name and
\* then raises ExportError if the stripped name is not a registered format
\* name, raises ExportError if the matching strategy is unavailable, and
\* otherwise returns an instance of exactly the strategy registered under it.
C17_CreateStrategyStripsMarkerOnly ==
    (pure_in.fn = "create_strategy" /\ pure_out # NoRet)
        => LET strategy == RegisteredAs(WithoutMarker(pure_in.format_name))
           IN  IF strategy = "none" \/ (strategy = "XLSXExportStrategy" /\ ~openpyxl)
               THEN pure_out = Raise("create_strategy", "ExportError")
               ELSE pure_out = Return("create_strategy", strategy)

\* C18: get_available_formats() returns one entry per registered strategy, in
\* registry order: the bare name when the strategy is available, the name
\* followed by " - Non disponibile" when it is not; and create_strategy(e)
\* succeeds for an entry e exactly when e carries no marker.
C18_FormatsListedWithMarkerIffUnavailable ==
    pure_out.op = "get_available_formats"
        => LET listed == pure_out.value
           IN  /\ Len(listed) = 4
               /\ listed[1] = nameCSV
               /\ listed[2] = nameMarkdown
               /\ listed[3] = (IF openpyxl THEN nameXLSX ELSE nameXLSX \o Marker)
               /\ listed[4] = nameXML
               /\ \A i \in 1..Len(listed) :
                      CreateStrategy(listed[i], openpyxl).t = "ok"
                          <=> ~EndsWith(listed[i], Marker)

C18_XlsxListedAsUnavailable ==
    /\ pure_out.op = "get_available_formats"
    /\ ~openpyxl
    /\ pure_out.value[3] = nameXLSX \o Marker
    /\ CreateStrategy(pure_out.value[3], openpyxl) = CreateRaises

-----------------------------------------------------------------------------
(* Properties of a GameController session (SpecSession) *)

\* the name the most recent search that returned gives, or the fixed fallback
NameOfCompleted ==
    IF completed = NoSearch THEN "games_results"
    ELSE "games_results_" \o ToString(completed.year) \o "_" \o ToString(completed.month)

\* C19: after any sequence of controller operations, get_automatic_filename()
\* returns "games_results" if no search has returned yet, and otherwise
\* "games_results_<year>_<month>" for the most recent search that returned; an
\* export_games call without a filename writes the file of exactly that name.
C19_AutomaticFilenameOfLastCompletedSearch ==
    /\ ret.op = "get_automatic_filename"
           => ret = Return("get_automatic_filename", NameOfCompleted)
    /\ (ret.op = "export_games" /\ pure_in.filename = PyNone)
           => /\ ret = Return("export_games", "games/" \o NameOfCompleted \o ".csv")
              /\ FileAt(files, "games/" \o NameOfCompleted \o ".csv") # {}

C19_NameKeptAfterFailedSearch ==
    /\ ret = Return("get_automatic_filename", "games_results_2023_12")
    /\ completed # NoSearch
    /\ year = 2024
    /\ upstream = <<RequestError>>

\* C20: get_last_results() returns the empty list before any search and the
\* record sequence of the most recent search that returned afterwards,
\* whatever the caller added to, removed from or reordered in a list that an
\* earlier get_last_results() gave it.
C20_LastResultsAreACopy ==
    /\ ret.op = "get_last_results"
           => ret = Return("get_last_results",
                           IF completed = NoSearch THEN <<>> ELSE completed.records)
    /\ last_results = (IF completed = NoSearch THEN <<>> ELSE completed.records)

C20_ReorderedListThenSameResults ==
    /\ ret.op = "get_last_results"
    /\ Len(ret.value) = 2
    /\ held # NoHeld
    /\ held.v = <<ret.value[2], ret.value[1]>>
    /\ held.v # ret.value

-----------------------------------------------------------------------------
(* Properties of search_games as a whole (Spec) *)

\* the running fetch of a search got a failed page request in this step
FetchFailsNow ==
    /\ pc = "fetch"
    /\ caller = "search"
    /\ Len(upstream') = Len(upstream) + 1
    /\ upstream'[Len(upstream')] = RequestError

\* C21: a search whose fetch fails hands the transport error to the caller as
\* it is (no empty result, no other error) and leaves the stored results and
\* the stored (year, month) as they were; the stored results change only as a
\* whole, to what a search that returns has returned.
C21_FailedSearchRaisesAndKeepsLastResults ==
    [][/\ FetchFailsNow
           => /\ ret' = Raise("search_games", "APIServiceError")
              /\ pc' = "idle"
              /\ UNCHANGED ctlVars
       /\ ctlVars' # ctlVars
           => /\ ret' = Return("search_games", last_results')
              /\ last_search_year' = PyInt(year)
              /\ last_search_month' = PyInt(month)]_vars

C21_FailedSearchAfterOneThatReturned ==
    /\ ret = Raise("search_games", "APIServiceError")
    /\ completed # NoSearch
    /\ year # completed.year
    /\ last_results = completed.records
    /\ Len(last_results) = 2
    /\ last_search_year = PyInt(completed.year)

-----------------------------------------------------------------------------
(* Properties of Config (SpecConfig) *)

HoldsConfig == ret.kind = "return" /\ ret.op \in {"Config", "GameController"}

\* C22: when the catalog key is missing, every attempt to construct Config, and
\* so GameController, raises ConfigError: whatever the attempts made, no caller
\* is handed a Config whose rawg_api_key is absent or empty.
C22_NoConfigWithoutCatalogKey ==
    HoldsConfig
        => /\ config.rawg_api_key.t = "str"
           /\ config.rawg_api_key.v # <<>>

\* C23: every Config() that returns gives the same instance; the environment
\* is loaded at the first construction only; and the keys exposed stay those
\* read at the first construction, whatever the environment becomes.
C23_SingletonInitializedOnce ==
    /\ [](/\ config.created <= 1
          /\ config.loads <= 1
          /\ (ret.kind = "return" /\ ret.op = "Config") => ret.value = 1
          /\ (ret.kind = "return" /\ ret.op = "GameController") => ret.value.config = 1)
    /\ [][config.initialized
             => /\ config'.rawg_api_key = config.rawg_api_key
                /\ config'.openai_api_key = config.openai_api_key
                /\ config'.loads = config.loads
                /\ config'.instance = config.instance]_vars

C23_SecondConfigAfterEnvironmentChanged ==
    /\ ret = Return("Config", 1)
    /\ config.attempts = 2
    /\ config.rawg_api_key = PyStr(<<"k", "1">>)
    /\ environ.RAWG_API_KEY = PyStr(<<"k", "2">>)
    /\ environ.OPENAI_API_KEY # config.openai_api_key

-----------------------------------------------------------------------------
(* Properties of Game.to_dict (SpecGame) *)

NotAvailable == <<"N", "/", "A">>

RatingOutOfTen(n) ==
    CASE n = 1 -> <<"1", "/", "1", "0">>
      [] n = 7 -> <<"7", "/", "1", "0">>
      [] n = 10 -> <<"1", "0", "/", "1", "0">>

\* C24: to_dict() gives, in this order, Title, Platforms (joined by ", "),
\* Release Date ("N/A" when there is none) and Genres (joined by ", "), and
\* after them AI Review and AI Rating exactly when ai_review is not null; AI
\* Rating is "<n>/10" when there is a rating and "N/A" when there is none.
C24_ToDictKeysAndValues ==
    pure_out.op = "to_dict"
        => LET d == pure_out.value
               g == pure_in.g
           IN  /\ Len(d) = (IF g.ai_review.t = "none" THEN 4 ELSE 6)
               /\ d[1] = <<"Title", g.title>>
               /\ d[2] = <<"Platforms", JoinedByCommaSpace(g.platforms)>>
               /\ d[3] = <<"Release Date",
                           IF g.release_date.t = "none" THEN NotAvailable
                           ELSE g.release_date.v>>
               /\ d[4] = <<"Genres", JoinedByCommaSpace(g.genres)>>
               /\ Len(d) = 6
                      => /\ d[5][1] = "AI Review"
                         /\ d[6] = <<"AI Rating",
                                     IF g.ai_rating.t = "none" THEN NotAvailable
                                     ELSE RatingOutOfTen(g.ai_rating.v)>>

C24_ReviewedRecordWithRating ==
    /\ pure_out.op = "to_dict"
    /\ pure_in.g.ai_review = PyStr(<<"o", "k">>)
    /\ pure_in.g.ai_rating = PyInt(10)
    /\ Len(pure_in.g.platforms) = 2
    /\ Len(pure_out.value) = 6


\* ---------------------------------------------------------------------------
\* Properties of the reply parser as a whole (SpecParse)
\* ---------------------------------------------------------------------------

ParserReturned == pure_out.op = "_parse_json_response" /\ pure_out.kind = "return"

\* C25: the parser never returns a rating without a review: whenever the
\* returned rating is an integer, the returned review is a text.
C25_RatingOnlyWithReview ==
    ParserReturned => (pure_out.value[2].t = "int" => pure_out.value[1].t = "str")

\* the lines of a reply that are rating lines of the legacy format
VotoLinesOf(lines) == SelectSeq(lines, LAMBDA ln : StartsWith(StrUpper(ln), VOTO))

\* the first number written on a line: the decimal digits from the first one
\* up to the first character that is not a decimal digit
RECURSIVE LeadingDecimals(_)
LeadingDecimals(s) ==
    IF s = <<>> \/ ~IsDecimal(s[1]) THEN <<>> ELSE <<s[1]>> \o LeadingDecimals(Tail(s))

RECURSIVE FirstNumberText(_)
FirstNumberText(s) ==
    IF s = <<>> THEN <<>>
    ELSE IF IsDecimal(s[1]) THEN LeadingDecimals(s)
    ELSE FirstNumberText(Tail(s))

\* C28: a reply that is not JSON and has one rating line whose first number n
\* is between 1 and 10 (as in "VOTO: n" or "VOTO: n/10") is parsed to rating n.
C28_LegacyRatingIsFirstNumber ==
    (/\ pure_out.op = "_parse_json_response"
     /\ pure_in.content.t = "text" /\ pure_in.content.json.t = "malformed"
     /\ Len(VotoLinesOf(pure_in.content.lines)) = 1
     /\ FirstNumberText(VotoLinesOf(pure_in.content.lines)[1]) # <<>>
     /\ DigitsValue(FirstNumberText(VotoLinesOf(pure_in.content.lines)[1])) \in 1..10)
    => /\ pure_out.kind = "return"
       /\ pure_out.value[2]
            = PyInt(DigitsValue(FirstNumberText(VotoLinesOf(pure_in.content.lines)[1])))

\* a reply that is a JSON object whose review member is a non-empty string
ObjectWithReviewText ==
    /\ pure_out.op = "_parse_json_response"
    /\ pure_in.content.t = "text" /\ pure_in.content.json.t = "dict"
    /\ pure_in.content.json.review.t = "str" /\ pure_in.content.json.review.v # <<>>

\* C29 (as stated): a JSON object with a non-empty string review gives that
\* review, trimmed, whatever its rating member holds.
C29_ReviewKeptWhateverTheRating ==
    ObjectWithReviewText
    => /\ pure_out.kind = "return"
       /\ pure_out.value[1] = PyStr(Strip(pure_in.content.json.review.v))

\* a rating member that int() refuses: a string that is not a decimal number
IntRefuses(x) ==
    /\ x.t = "str"
    /\ LET body == Strip(x.v)
            unsigned == IF body # <<>> /\ body[1] \in {"+", "-"} THEN Tail(body) ELSE body
        IN  unsigned = <<>> \/ \E i \in 1..Len(unsigned) : ~IsDecimal(unsigned[i])

\* C29 (amended): the review member, trimmed, is returned when it is not blank
\* and the rating member is missing, null, a number or a string int() accepts;
\* with a blank review or a string rating that int() refuses the object is
\* dropped and the whole reply text comes back as the review, without rating.
C29_ReviewKeptUnlessSchemaBroken ==
    ObjectWithReviewText
    => /\ pure_out.kind = "return"
       /\ IF Strip(pure_in.content.json.review.v) = <<>> \/ IntRefuses(pure_in.content.json.rating)
          THEN pure_out.value = <<PyStr(Strip(pure_in.content.lines[1])), PyNone>>
          ELSE pure_out.value[1] = PyStr(Strip(pure_in.content.json.review.v))

C29_ReviewWithWordAsRating ==
    /\ ObjectWithReviewText
    /\ pure_in.content.json.review = PyStr(<<"o", "k">>)
    /\ pure_in.content.json.rating = PyStr(<<"a", "b", "c">>)
    /\ pure_out.kind = "return"
    /\ pure_out.value[1] = PyStr(pure_in.content.lines[1])


\* ---------------------------------------------------------------------------
\* Properties of RAWGService._parse_game_data (SpecNormalize)
\* ---------------------------------------------------------------------------

\* the list a record gets for a platforms or genres field: the field's own
\* entries when it is a list, no entry when it is absent, null or not a list
DefensiveList(field) == IF field.t = "list" THEN field.v ELSE <<>>

\* C27: normalizing a raw item never raises because of its platforms or
\* genres field: an absent, null or non-list field gives the record an empty
\* list, a list gives its entries.
C27_PlatformsAndGenresReadDefensively ==
    pure_out.op = "_parse_game_data"
    => /\ pure_out.kind = "return"
       /\ pure_out.value.platforms = DefensiveList(pure_in.game_data.platforms)
       /\ pure_out.value.genres = DefensiveList(pure_in.game_data.genres)


\* ---------------------------------------------------------------------------
\* Properties of searches followed by look-ups and exports (SpecPipeline)
\* ---------------------------------------------------------------------------

\* the review fields of the records of the running or last search are what the
\* one generate_review call made for each record returned, and nothing for
\* the records no call was made for
EnrichedAsCalled ==
    /\ \A i \in 1..Len(calls) : calls[i].index = i
    /\ \A i \in 1..Len(games) :
        IF i <= Len(calls)
        THEN games[i].ai_review = calls[i].result[1]
             /\ games[i].ai_rating = calls[i].result[2]
        ELSE games[i].ai_review = PyNone /\ games[i].ai_rating = PyNone

\* C26: a record's ai_review and ai_rating are written at most once, by the
\* enrichment step of the search that created it; get_last_results,
\* get_automatic_filename, export_games and a failed search leave the stored
\* records as that search returned them, and a later search only replaces them
\* by its own records.
C26_ReviewFieldsWrittenOnce ==
    /\ [](EnrichedAsCalled /\ (completed # NoSearch => last_results = completed.records))
    /\ [][last_results' # last_results
            => pc = "enrich" /\ pc' = "idle" /\ last_results' = games
               /\ ret'.op = "search_games" /\ ret'.kind = "return"]_vars

C26_ExportThenFailedSearchAfterReviews ==
    /\ Len(last_results) = 2
    /\ last_results[1].ai_review = PyNone
    /\ last_results[2].ai_review.t = "str"
    /\ files # NoFiles
    /\ held # NoHeld
    /\ ret = Raise("search_games", "APIServiceError")

\* C30: every non-empty list a search returned, whichever of its records got
\* a review, is exported by export_games without an error in every format
\* get_available_formats() lists.
C30_SearchResultsExportInEveryFormat ==
    (/\ ret.op = "export_games"
     /\ pure_in.fn = "controller.export_games"
     /\ pure_in.gs # <<>>)
    => ret.kind = "return"

====
